---------------------------- MODULE Spec2Model ----------------------------
(***************************************************************************)
(* Model of the Amsons bulk-upload tool:                                   *)
(*   - final-script.py   : broadcast_values, the per-size pipe builders,   *)
(*                         the SKU allocator and the row assembler of      *)
(*                         build_shopify_rows;                             *)
(*   - amsons_dashboard.py: the Validate / Run state machine of the        *)
(*                         DashboardFrame.                                 *)
(*                                                                         *)
(* A string is modelled as the sequence of its characters (one-character   *)
(* TLA+ strings), so that formatting, slugs and pattern matching are       *)
(* computed.  A spreadsheet cell is modelled as the sequence of its        *)
(* '|'-separated, stripped parts; the blank cell is the empty sequence.    *)
(***************************************************************************)
EXTENDS Integers, Sequences, FiniteSets, TLC

VARIABLES
    \* ---- broadcast_values called on its own (pure function) ----
    bc_in,            \* the arguments of the call: [cell, n1, n2, n3]
    bc_out,           \* the returned list
    bc_issues,        \* the issues list handed to the call
    bc_pc,            \* "call" before the call, "done" after it
    \* ---- build_shopify_rows ----
    df,               \* the input rows iterated so far (df.iterrows)
    df_sku,           \* df["Variant SKU"] as written back by df.at[i, ...]
    respect_existing, \* argument respect_existing
    highest_before,   \* local highest_before (seed after env override)
    next_base,        \* local next_base
    used_handles,     \* local used_handles
    handles,          \* for each row of df, the value its local handle took
    rows,             \* local rows (the output list)
    row_src,          \* for each element of rows, the sheet row it was built from
    issues,           \* local issues
    image_results,    \* local image_results
    run2,             \* the locals of a second execution of build_shopify_rows
                      \* over the same table, iterated row by row with the first
    \* ---- load_prev_highest_base ----
    prev,             \* the previous export at prev_path
    seed_out,         \* the value returned
    seed_pc,          \* "call" before the call, "done" after it
    \* ---- _worker_preflight on its own ----
    vin,              \* the sheet read from inp_path and the answers of the probes
    vout,             \* what the call puts on the queue
    vpc,              \* "call" before the call, "done" after it
    \* ---- check_image_url on its own ----
    probe_in,         \* the url, whether requests is installed, and what the
                      \* server answers to a HEAD and to a GET
    probe_out,        \* (ok, note) returned, and the requests that were sent
    probe_pc,         \* "call" before the call, "done" after it
    \* ---- DashboardFrame ----
    last_validation,        \* self.last_validation
    proceed_despite_errors, \* self.proceed_despite_errors
    phase,                  \* self.phase
    btn_validate,           \* state of self.btn_validate
    btn_run,                \* state of self.btn_run
    q,                      \* self.q
    poll,                   \* the polling callback scheduled with self.after
    thread,                 \* the worker thread in flight, with its arguments
    last_exit_code,         \* self._last_exit_code
    sheet,                  \* the selected input: path chosen, and what is in it
    launched,               \* the builder runs started so far, each with the
                            \* validation result and the checkbox it started under
    builder                 \* the process of final-script.py started by _worker:
                            \* the input it finds, its steps and its exit status

bvars == <<bc_in, bc_out, bc_issues, bc_pc>>
kvars == <<df, df_sku, respect_existing, highest_before, next_base,
           used_handles, handles, rows, row_src, issues, image_results,
           run2>>
dvars == <<last_validation, proceed_despite_errors, phase, btn_validate,
           btn_run, q, poll, thread, last_exit_code, sheet, launched,
           builder>>
pvars == <<prev, seed_out, seed_pc>>
wvars == <<vin, vout, vpc>>
cvars == <<probe_in, probe_out, probe_pc>>
vars  == <<bvars, kvars, dvars, pvars, wvars, cvars>>

-----------------------------------------------------------------------------
(* Bounds of the model *)

MaxProducts == 2      \* rows of the input sheet
MaxTokens   == 6      \* parts of a pipe-list handed to broadcast_values alone
MaxDim      == 3      \* option values per dimension in the broadcast checks
MaxImages   == 2      \* filled "Image URL n" cells of a row
MaxRuns     == 2      \* builder launches followed in the dashboard
MaxPrevRows == 3      \* cells of the "Variant SKU" column of a previous export
MaxSheetRows == 2     \* rows of a sheet handed to _worker_preflight alone
MaxLines    == 1      \* output lines of one builder process
MaxHandleProducts == 3  \* rows of the input sheet in the checks on handles

-----------------------------------------------------------------------------
(* Generic sequence helpers *)

\* "for m in range(n): out += F(m)": F(0) \o F(1) \o ... \o F(n-1), put
\* together by halves
FlatRange(n, F(_)) ==
    LET f[lo \in 0..n, hi \in 0..n] ==
            IF hi <= lo THEN <<>>
            ELSE IF hi = lo + 1 THEN F(lo)
            ELSE f[lo, (lo + hi) \div 2] \o f[(lo + hi) \div 2, hi]
    IN  f[0, n]

\* [x] * n
Repeat(x, n) == [m \in 1..n |-> x]

Last(s) == s[Len(s)]

Min(a, b) == IF a < b THEN a ELSE b
Max(a, b) == IF a < b THEN b ELSE a

-----------------------------------------------------------------------------
(* Strings *)

Digits == <<"0", "1", "2", "3", "4", "5", "6", "7", "8", "9">>

IsDigit(c) == \E d \in 1..10 : Digits[d] = c

\* str(n) for n >= 0
RECURSIVE DecStr(_)
DecStr(n) == IF n < 10 THEN <<Digits[n + 1]>>
             ELSE DecStr(n \div 10) \o <<Digits[(n % 10) + 1]>>

\* f"{n:0{w}d}": zero-padded to at least w characters
ZeroPad(n, w) ==
    LET s == DecStr(n)
    IN  IF Len(s) >= w THEN s ELSE Repeat("0", w - Len(s)) \o s

\* int(s) for a string of digits
RECURSIVE ParseInt(_)
ParseInt(s) ==
    IF s = <<>> THEN 0
    ELSE 10 * ParseInt(SubSeq(s, 1, Len(s) - 1))
         + (CHOOSE d \in 0..9 : Digits[d + 1] = Last(s))

UpperCase == <<"A", "B", "C", "D", "E", "F", "G", "H", "I", "J", "K", "L", "M",
              "N", "O", "P", "Q", "R", "S", "T", "U", "V", "W", "X", "Y", "Z">>
LowerCase == <<"a", "b", "c", "d", "e", "f", "g", "h", "i", "j", "k", "l", "m",
              "n", "o", "p", "q", "r", "s", "t", "u", "v", "w", "x", "y", "z">>

\* c.lower()
LowerOf ==
    [c \in { UpperCase[u] : u \in 1..Len(UpperCase) } |->
        LowerCase[CHOOSE u \in 1..Len(UpperCase) : UpperCase[u] = c]]

LowerChar(c) == IF c \in DOMAIN LowerOf THEN LowerOf[c] ELSE c

Lower(s) == [x \in 1..Len(s) |-> LowerChar(s[x])]

-----------------------------------------------------------------------------
(* final-script.py: parsing helpers *)

\* the parts of a cell that are not empty
split_pipe(val) == SelectSeq(val, LAMBDA p : p # <<>>)

\* "|".join(parts): a single empty part joins to the blank cell
JoinPipe(parts) == IF parts = << <<>> >> THEN <<>> ELSE parts

\* str(cell).strip() is non-empty
NonBlank(cell) == cell # <<>>

-----------------------------------------------------------------------------
(* final-script.py: token helpers *)

WEIGHT_UNITS == { <<"g">>,
      <<"k", "g">>,
      <<"l", "b">>,
      <<"o", "z">> }

TrueTokens == { <<"t", "r", "u", "e">>,
      <<"t">>,
      <<"y", "e", "s">>,
      <<"y">>,
      <<"1">> }

FalseTokens == { <<"f", "a", "l", "s", "e">>,
      <<"f">>,
      <<"n", "o">>,
      <<"n">>,
      <<"0">> }

coerce_bool_token(x) ==
    LET s == Lower(x)
    IN  IF s \in TrueTokens THEN <<"T", "R", "U", "E">>
        ELSE IF s \in FalseTokens THEN <<"F", "A", "L", "S", "E">>
        ELSE <<>>

InStockTokens == { <<"1">>,
      <<"i", "n">>,
      <<"i", "n", "s", "t", "o", "c", "k">>,
      <<"i", "n", " ", "s", "t", "o", "c", "k">>,
      <<"t", "r", "u", "e">>,
      <<"y", "e", "s">> } \cup { <<>> }

OutOfStockTokens == { <<"0">>,
      <<"o", "u", "t">>,
      <<"o", "o", "s">>,
      <<"o", "u", "t", "o", "f", "s", "t", "o", "c", "k">>,
      <<"o", "u", "t", " ", "o", "f", " ", "s", "t", "o", "c", "k">>,
      <<"f", "a", "l", "s", "e">>,
      <<"n", "o">> }

\* the nested _inv_to_qty of build_shopify_rows
inv_to_qty(tok) ==
    LET s == Lower(tok)
    IN  IF s \in InStockTokens THEN <<"1", "0", "0", "0">>
        ELSE IF s \in OutOfStockTokens THEN <<"0">>
        ELSE IF \A x \in 1..Len(s) : IsDigit(s[x]) THEN s
        ELSE <<"1", "0", "0", "0">>

\* grams_from_weight, for weights written as whole numbers in g or kg
\* (the float arithmetic of the other inputs is not modelled: they are not
\* among the inputs)
grams_from_weight(val, unit) ==
    IF val = <<>> \/ ~(\A x \in 1..Len(val) : IsDigit(val[x])) THEN <<>>
    ELSE IF unit = <<"k", "g">> THEN DecStr(ParseInt(val) * 1000)
    ELSE IF unit = <<"g">> THEN DecStr(ParseInt(val))
    ELSE <<>>

\* slugify_str (the regular-expression fallback): lower-case, every run of
\* characters outside [a-z0-9] becomes one "-", leading and trailing "-"
\* are stripped.  The cut to 255 characters is beyond the inputs.
IsSlugChar(c) == IsDigit(c) \/ (\E u \in 1..Len(LowerCase) : LowerCase[u] = c)

slugify_str(s) ==
    LET low == Lower(s)
        \* f[m]: the slug of the first m characters, without leading "-"
        f[m \in 0..Len(low)] ==
            IF m = 0 THEN <<>>
            ELSE IF IsSlugChar(low[m]) THEN Append(f[m-1], low[m])
            ELSE IF f[m-1] = <<>> \/ Last(f[m-1]) = "-" THEN f[m-1]
            ELSE Append(f[m-1], "-")
        r == f[Len(low)]
    IN  IF r # <<>> /\ Last(r) = "-" THEN SubSeq(r, 1, Len(r) - 1) ELSE r

\* (a slip that would take base-1 without looking whether it is free)
uniqueness_suffix_mut(existing, base) ==
    IF base \notin existing THEN base ELSE base \o <<"-", "1">>

\* uniqueness_suffix: base when it is free, else base-i for the least free i
uniqueness_suffix(existing, base) ==
    IF base \notin existing THEN base
    ELSE LET cand(i) == base \o <<"-">> \o DecStr(i)
             i == CHOOSE x \in 1..(Cardinality(existing) + 1) :
                     /\ cand(x) \notin existing
                     /\ \A y \in 1..(x - 1) : cand(y) \in existing
         IN  cand(i)

\* is_url: ^https?:// , case-insensitive
HasPrefix(s, pre) == Len(s) >= Len(pre) /\ SubSeq(s, 1, Len(pre)) = pre

is_url(s) ==
    \/ HasPrefix(Lower(s), <<"h", "t", "t", "p", ":", "/", "/">>)
    \/ HasPrefix(Lower(s), <<"h", "t", "t", "p", "s", ":", "/", "/">>)

\* STRICT_SKU_RE: ^(\d{6})(?:-(\d{2}))?$
StrictSkuMatch(s) ==
    \/ Len(s) = 6 /\ \A x \in 1..6 : IsDigit(s[x])
    \/ /\ Len(s) = 9
       /\ \A x \in 1..6 : IsDigit(s[x])
       /\ s[7] = "-"
       /\ IsDigit(s[8]) /\ IsDigit(s[9])

\* str.strip() and str.lstrip("'")
RECURSIVE LStrip(_, _)
LStrip(s, c) == IF s # <<>> /\ s[1] = c THEN LStrip(Tail(s), c) ELSE s

RECURSIVE RStrip(_, _)
RStrip(s, c) ==
    IF s # <<>> /\ Last(s) = c THEN RStrip(SubSeq(s, 1, Len(s) - 1), c) ELSE s

Strip(s) == RStrip(LStrip(s, " "), " ")

clean_sku_text(s) == Strip(LStrip(Strip(s), "'"))

\* extract_base_6: the 6-digit base as a number, or -1 for None
extract_base_6(s) ==
    LET s2 == clean_sku_text(s)
    IN  IF StrictSkuMatch(s2) THEN ParseInt(SubSeq(s2, 1, 6)) ELSE -1

-----------------------------------------------------------------------------
(* final-script.py: check_image_url.  The note is modelled by its kind, with *)
(* the status of "HTTP <status>"; sent lists the requests that were issued.  *)

\* the extensions of looks_like_image_url
ImageExts ==
    { <<"j", "p", "g">>, <<"j", "p", "e", "g">>, <<"p", "n", "g">>, <<"g", "i", "f">>, <<"w", "e", "b", "p">>, <<"t", "i", "f">>, <<"t", "i", "f", "f">> }

\* looks_like_image_url: \.(jpg|jpeg|png|gif|webp|tiff?)($|\?) found in the
\* lower-cased text
looks_like_image_url(s) ==
    LET low == Lower(s)
    IN  \E e \in ImageExts, i \in 1..Len(low) :
            /\ i + Len(e) <= Len(low)
            /\ low[i] = "."
            /\ SubSeq(low, i + 1, i + Len(e)) = e
            /\ (i + Len(e) = Len(low) \/ low[i + Len(e) + 1] = "?")

HasImageWord(ctype) ==
    \E i \in 1..Len(ctype) :
        i + 4 <= Len(ctype) /\ SubSeq(Lower(ctype), i, i + 4) = <<"i", "m", "a", "g", "e">>

\* (a slip that would retry with GET after any status other than 200)
ProbeRetries_mut(head) == head.kind = "resp" /\ head.status # 200

\* "if resp.status_code == 405: resp = requests.get(...)"
ProbeRetries(head) == head.kind = "resp" /\ head.status = 405

\* check_image_url(url) when the server answers head to the HEAD request and
\* get to the GET request, with the requests package installed or not
check_image_url(url, installed, head, get) ==
    IF url = <<>> \/ ~is_url(url)
    THEN [ok |-> FALSE, note |-> "Not a URL", status |-> 0, sent |-> <<>>]
    ELSE IF ~installed
    THEN [ok |-> looks_like_image_url(url), note |-> "requests not installed",
          status |-> 0, sent |-> <<>>]
    ELSE IF head.kind = "fail"
    THEN [ok |-> FALSE, note |-> "Error", status |-> 0, sent |-> <<"HEAD">>]
    ELSE IF ProbeRetries(head) /\ get.kind = "fail"
    THEN [ok |-> FALSE, note |-> "Error", status |-> 0,
          sent |-> <<"HEAD", "GET">>]
    ELSE LET resp == IF ProbeRetries(head) THEN get ELSE head
             sent == IF ProbeRetries(head) THEN <<"HEAD", "GET">>
                     ELSE <<"HEAD">>
         IN
           IF resp.status # 200
           THEN [ok |-> FALSE, note |-> "HTTP", status |-> resp.status,
                 sent |-> sent]
           ELSE IF ~HasImageWord(resp.ctype)
           THEN [ok |-> FALSE, note |-> "Content-Type", status |-> 0,
                 sent |-> sent]
           ELSE [ok |-> TRUE, note |-> "OK", status |-> 0, sent |-> sent]

-----------------------------------------------------------------------------
(* final-script.py: broadcast_values *)

\* (a slip that would let the dimension-2 index pick the value)
broadcast_by_n1_mut(vals, n1, n2, n3) ==
    FlatRange(n1, LAMBDA i :
        FlatRange(n2, LAMBDA j :
            FlatRange(n3, LAMBDA k : <<vals[(j % Len(vals)) + 1]>>)))

\* the branch "if len(vals) == n1"
broadcast_by_n1(vals, n1, n2, n3) ==
    FlatRange(n1, LAMBDA i :
        FlatRange(n2, LAMBDA j :
            FlatRange(n3, LAMBDA k : <<vals[i+1]>>)))

\* (a slip that would leave a short list short)
broadcast_repair_mut(vals, total) ==
    IF Len(vals) < total THEN vals ELSE SubSeq(vals, 1, total)

\* the repair after the warning: repeat the last value, or truncate
broadcast_repair(vals, total) ==
    IF Len(vals) < total
    THEN vals \o Repeat(Last(vals), total - Len(vals))
    ELSE SubSeq(vals, 1, total)

broadcast_values(value_str, n1, n2, n3) ==
    LET vals  == split_pipe(value_str)
        total == n1 * n2 * n3
        len   == Len(vals)
    IN  IF len = 0 THEN [out |-> Repeat(<<>>, total), warn |-> FALSE]
        ELSE IF len = 1 THEN [out |-> Repeat(vals[1], total), warn |-> FALSE]
        ELSE IF len = total THEN [out |-> vals, warn |-> FALSE]
        ELSE IF len = n1 THEN
            [out |-> broadcast_by_n1(vals, n1, n2, n3), warn |-> FALSE]
        ELSE IF len = n2 THEN
            [out |-> FlatRange(n1, LAMBDA i :
                        FlatRange(n2, LAMBDA j :
                            FlatRange(n3, LAMBDA k : <<vals[j+1]>>))),
             warn |-> FALSE]
        ELSE IF len = n3 THEN
            [out |-> FlatRange(n1, LAMBDA i :
                        FlatRange(n2, LAMBDA j :
                            FlatRange(n3, LAMBDA k : <<vals[k+1]>>))),
             warn |-> FALSE]
        ELSE IF len = n1 * n2 /\ n3 > 1 THEN
            \* idx runs over vals in (i, j) order: idx = i*n2 + j
            [out |-> FlatRange(n1, LAMBDA i :
                        FlatRange(n2, LAMBDA j :
                            Repeat(vals[i*n2 + j + 1], n3))),
             warn |-> FALSE]
        ELSE IF len = n1 * n3 /\ n2 > 1 THEN
            [out |-> FlatRange(n1, LAMBDA i :
                        FlatRange(n2, LAMBDA j :
                            FlatRange(n3, LAMBDA k : <<vals[i*n3 + k + 1]>>))),
             warn |-> FALSE]
        ELSE IF len = n2 * n3 /\ n1 > 1 THEN
            [out |-> FlatRange(n1, LAMBDA i : vals), warn |-> FALSE]
        ELSE [out |-> broadcast_repair(vals, total), warn |-> TRUE]

-----------------------------------------------------------------------------
(* final-script.py: the per-size pipe builders *)

SepChars == {" ", "_", "-"}

\* re.split(r"[ _-]+", col_str, 1)[1].strip(), or <<>> when the name has no
\* separator (len(parts) != 2) or nothing after it
ColumnSuffix(col_str) ==
    IF \A x \in 1..Len(col_str) : col_str[x] \notin SepChars THEN <<>>
    ELSE LET first == CHOOSE x \in 1..Len(col_str) :
                         /\ col_str[x] \in SepChars
                         /\ \A y \in 1..(x - 1) : col_str[y] \notin SepChars
             rest  == SubSeq(col_str, first, Len(col_str))
             \* the whole run of separators is one split point
             RECURSIVE SkipSeps(_)
             SkipSeps(t) == IF t # <<>> /\ t[1] \in SepChars
                            THEN SkipSeps(Tail(t)) ELSE t
         IN  Strip(SkipSeps(rest))

\* the columns of the row that feed per_size for a prefix, in column order
PerSizeColumns(cols, prefix) ==
    SelectSeq(cols, LAMBDA c :
        /\ HasPrefix(Lower(Strip(c.name)), prefix)
        /\ Strip(c.val) # <<>>
        /\ ColumnSuffix(Strip(c.name)) # <<>>)

\* per_size.get(key, ""): the last column written under key wins
PerSizeGet(pcols, key) ==
    LET hits == SelectSeq(pcols, LAMBDA c :
                    Lower(ColumnSuffix(Strip(c.name))) = key)
    IN  IF hits = <<>> THEN <<>> ELSE Strip(Last(hits).val)

\* the common body of build_barcode_pipe_for_sizes, build_weight_pipe_for_sizes,
\* build_inventory_pipe_for_sizes and build_grams_pipe_for_sizes
build_pipe_for_sizes(base, cols, o1vals, prefix) ==
    IF NonBlank(base) THEN
        LET parts == base
            n     == Len(o1vals)
        IN  IF o1vals = <<>> THEN JoinPipe(parts)
            ELSE IF Len(parts) < n
                 THEN JoinPipe(parts \o Repeat(<<>>, n - Len(parts)))
            ELSE IF Len(parts) > n THEN JoinPipe(SubSeq(parts, 1, n))
            ELSE JoinPipe(parts)
    ELSE IF o1vals = <<>> THEN <<>>
    ELSE LET pcols == PerSizeColumns(cols, prefix)
         IN  IF pcols = <<>> THEN <<>>
             ELSE JoinPipe([x \in 1..Len(o1vals) |->
                               PerSizeGet(pcols, Lower(Strip(o1vals[x])))])

build_barcode_pipe_for_sizes(row, o1vals) ==
    build_pipe_for_sizes(row.Variant_Barcode, row.cols, o1vals, <<"b", "a", "r", "c", "o", "d", "e">>)

build_weight_pipe_for_sizes(row, o1vals) ==
    build_pipe_for_sizes(row.Variant_Weight, row.cols, o1vals, <<"w", "e", "i", "g", "h", "t">>)

build_inventory_pipe_for_sizes(row, o1vals) ==
    build_pipe_for_sizes(row.Variant_Inventory, row.cols, o1vals, <<"i", "n", "v", "e", "n", "t", "o", "r", "y">>)

build_grams_pipe_for_sizes(row, o1vals) ==
    build_pipe_for_sizes(row.Variant_Grams, row.cols, o1vals, <<"g", "r", "a", "m", "s">>)

-----------------------------------------------------------------------------
(* final-script.py: build_shopify_rows, one iteration of "for i, r in        *)
(* df.iterrows()" per step                                                  *)

VariantCap  == 300       \* if nvars > 300
DefaultBase == 100001    \* next_base when there is no previous base

DefaultTitle == <<"D", "e", "f", "a", "u", "l", "t", " ", "T", "i", "t", "l", "e">>

\* o1vals, o2l, o3l of a row
OptionLists(r) ==
    LET o1 == split_pipe(r.Option1_Values)
        o2 == split_pipe(r.Option2_Values)
        o3 == split_pipe(r.Option3_Values)
    IN  [o1vals |-> IF o1 = <<>> THEN <<DefaultTitle>> ELSE o1,
         o2l    |-> IF Strip(r.Option2_Name) # <<>> /\ o2 # <<>>
                    THEN o2 ELSE << <<>> >>,
         o3l    |-> IF Strip(r.Option3_Name) # <<>> /\ o3 # <<>>
                    THEN o3 ELSE << <<>> >>]

\* (a slip that would iterate dimension 2 outermost)
Combos_mut(o) ==
    FlatRange(Len(o.o2l), LAMBDA j :
        FlatRange(Len(o.o1vals), LAMBDA i :
            FlatRange(Len(o.o3l), LAMBDA k :
                << <<o.o1vals[i+1], o.o2l[j+1], o.o3l[k+1]>> >>)))

\* list(itertools.product(o1vals, o2l, o3l))
Combos(o) ==
    FlatRange(Len(o.o1vals), LAMBDA i :
        FlatRange(Len(o.o2l), LAMBDA j :
            FlatRange(Len(o.o3l), LAMBDA k :
                << <<o.o1vals[i+1], o.o2l[j+1], o.o3l[k+1]>> >>)))

\* image_pairs: the (url, alt) pairs of the filled "Image URL n" cells
ImagePairs(r) == SelectSeq(r.images, LAMBDA im : im.url # <<>>)

\* f"{base_str}-{j:02d}"
SkuWithSuffix(base_str, j) == base_str \o <<"-">> \o ZeroPad(j, 2)

\* the "else" branch: base_str, then one SKU per variant
FreshSkus(nb, nvars) ==
    LET base_str == ZeroPad(nb, 6)
    IN  IF nvars = 1 THEN <<base_str>>
        ELSE [j \in 1..nvars |-> SkuWithSuffix(base_str, j)]

\* (a slip that would take a base whether or not a slot is blank)
KeepExistingSkus_mut(ex, nb, nvars) ==
    [skus |-> [idx \in 1..Len(ex) |->
                  IF ex[idx] = <<>> THEN ZeroPad(nb, 6) ELSE ex[idx]],
     next_base |-> nb + 1]

\* the branch "if respect_existing and any(existing_skus)"
KeepExistingSkus(ex, nb, nvars) ==
    LET need_fill == { idx \in 1..Len(ex) : ex[idx] = <<>> }
        base_str  == ZeroPad(nb, 6)
        counter(idx) == Cardinality({ y \in need_fill : y <= idx })
    IN  IF need_fill = {} THEN [skus |-> ex, next_base |-> nb]
        ELSE [skus |-> IF nvars = 1 THEN [ex EXCEPT ![1] = base_str]
                       ELSE [idx \in 1..Len(ex) |->
                                IF idx \in need_fill
                                THEN SkuWithSuffix(base_str, counter(idx))
                                ELSE ex[idx]],
              next_base |-> nb + 1]

\* (a slip that would take one base per variant)
AssignSkus_mut(r, n1, n2, n3, nvars, respect, nb) ==
    LET existing_skus == split_pipe(r.Variant_SKU)
    IN  IF respect /\ existing_skus # <<>>
        THEN LET b == broadcast_values(r.Variant_SKU, n1, n2, n3)
                 k == KeepExistingSkus(b.out, nb, nvars)
             IN  [skus |-> k.skus, next_base |-> k.next_base, warn |-> b.warn]
        ELSE [skus |-> FreshSkus(nb, nvars), next_base |-> nb + nvars,
              warn |-> FALSE]

\* assigned_skus and the new next_base of one accepted product
AssignSkus(r, n1, n2, n3, nvars, respect, nb) ==
    LET existing_skus == split_pipe(r.Variant_SKU)
    IN  IF respect /\ existing_skus # <<>>
        THEN LET b == broadcast_values(r.Variant_SKU, n1, n2, n3)
                 k == KeepExistingSkus(b.out, nb, nvars)
             IN  [skus |-> k.skus, next_base |-> k.next_base, warn |-> b.warn]
        ELSE [skus |-> FreshSkus(nb, nvars), next_base |-> nb + 1,
              warn |-> FALSE]

Issue(level, row, field) == [level |-> level, row |-> row, field |-> field]

\* (a slip that would file the mismatch as an error)
WarnIf_mut(b, row, field) ==
    IF b.warn THEN <<Issue("error", row, field)>> ELSE <<>>

\* the issue broadcast_values appends when it has to repair
WarnIf(b, row, field) ==
    IF b.warn THEN <<Issue("warning", row, field)>> ELSE <<>>

\* the per-variant lists of one accepted product and the warnings of their
\* broadcasts, in the order of the calls
FieldLists(r, o, n1, n2, n3, nvars, excel_row) ==
    LET price == broadcast_values(r.Variant_Price, n1, n2, n3)
        cmp   == broadcast_values(r.Variant_Compare_At_Price, n1, n2, n3)
        inv_b == build_inventory_pipe_for_sizes(r, o.o1vals)
        inv_s == IF NonBlank(inv_b) THEN inv_b
                 ELSE IF NonBlank(r.Variant_Inventory) THEN r.Variant_Inventory
                 ELSE << <<"1">> >>
        inv   == broadcast_values(inv_s, n1, n2, n3)
        bar   == broadcast_values(build_barcode_pipe_for_sizes(r, o.o1vals),
                                  n1, n2, n3)
        gr_s  == build_grams_pipe_for_sizes(r, o.o1vals)
        grams == IF NonBlank(gr_s) THEN broadcast_values(gr_s, n1, n2, n3)
                 ELSE [out |-> Repeat(<<>>, nvars), warn |-> FALSE]
        wt    == broadcast_values(build_weight_pipe_for_sizes(r, o.o1vals),
                                  n1, n2, n3)
        unit  == broadcast_values(r.Variant_Weight_Unit, n1, n2, n3)
        ship  == broadcast_values(r.Variant_Requires_Shipping, n1, n2, n3)
        tax   == broadcast_values(r.Variant_Taxable, n1, n2, n3)
        OrTrue(x) == IF coerce_bool_token(x) # <<>> THEN coerce_bool_token(x)
                     ELSE <<"T", "R", "U", "E">>
    IN  [vprice_list |-> price.out,
         vcmp_list   |-> cmp.out,
         vqty_list   |-> [x \in 1..Len(inv.out) |-> inv_to_qty(inv.out[x])],
         vbar_list   |-> bar.out,
         vgrams_list |-> grams.out,
         vwt_list    |-> wt.out,
         vunit_list  |-> unit.out,
         vship_list  |-> [x \in 1..Len(ship.out) |-> OrTrue(ship.out[x])],
         vtax_list   |-> [x \in 1..Len(tax.out) |-> OrTrue(tax.out[x])],
         warns |-> WarnIf(price, excel_row, "Variant Price*")
                   \o WarnIf(cmp, excel_row, "Variant Compare At Price")
                   \o WarnIf(inv, excel_row, "Variant Inventory")
                   \o WarnIf(bar, excel_row, "Variant Barcode")
                   \o WarnIf(grams, excel_row, "Variant Grams")
                   \o WarnIf(wt, excel_row, "Variant Weight")
                   \o WarnIf(unit, excel_row, "Variant Weight Unit")
                   \o WarnIf(ship, excel_row, "Variant Requires Shipping")
                   \o WarnIf(tax, excel_row, "Variant Taxable")]

\* rimg: a row with only Handle and the image columns filled
ImageRow(handle, im, pos) ==
    [Handle |-> handle, Title |-> <<>>,
     Option1_Value |-> <<>>, Option2_Value |-> <<>>, Option3_Value |-> <<>>,
     Variant_SKU |-> <<>>, Variant_Grams |-> <<>>,
     Variant_Inventory_Qty |-> <<>>, Variant_Price |-> <<>>,
     Variant_Compare_At_Price |-> <<>>, Variant_Requires_Shipping |-> <<>>,
     Variant_Taxable |-> <<>>, Variant_Barcode |-> <<>>,
     Variant_Weight_Unit |-> <<>>,
     Image_Src |-> im.url, Image_Position |-> DecStr(pos),
     Image_Alt_Text |-> im.alt]

\* (a slip that would give the first image a row of its own as well)
ExtraImageRows_mut(handle, image_pairs) ==
    [x \in 1..Len(image_pairs) |-> ImageRow(handle, image_pairs[x], x)]

\* extra_image_rows: one row per image after the first, positions 2, 3, ...
ExtraImageRows(handle, image_pairs) ==
    [x \in 1..(Len(image_pairs) - 1) |->
        ImageRow(handle, image_pairs[x + 1], x + 1)]

\* base_row of variant idxv (1-based), with the first image on the first row
VariantRow(r, handle, title, combo, fl, skus, image_pairs, idxv) ==
    LET vunit     == Lower(fl.vunit_list[idxv])
        vwt       == fl.vwt_list[idxv]
        vgrams_in == Strip(fl.vgrams_list[idxv])
        vgrams    == IF vgrams_in # <<>> THEN vgrams_in
                     ELSE IF vwt # <<>> /\ vunit \in WEIGHT_UNITS
                          THEN grams_from_weight(vwt, vunit)
                     ELSE <<>>
        with_img  == idxv = 1 /\ image_pairs # <<>>
    IN  [Handle |-> handle, Title |-> title,
         Option1_Value |-> combo[1], Option2_Value |-> combo[2],
         Option3_Value |-> combo[3],
         Variant_SKU |-> skus[idxv], Variant_Grams |-> vgrams,
         Variant_Inventory_Qty |-> fl.vqty_list[idxv],
         Variant_Price |-> fl.vprice_list[idxv],
         Variant_Compare_At_Price |-> fl.vcmp_list[idxv],
         Variant_Requires_Shipping |-> fl.vship_list[idxv],
         Variant_Taxable |-> fl.vtax_list[idxv],
         Variant_Barcode |-> fl.vbar_list[idxv],
         Variant_Weight_Unit |-> vunit,
         Image_Src |-> IF with_img THEN image_pairs[1].url ELSE <<>>,
         Image_Position |-> IF with_img THEN <<"1">> ELSE <<>>,
         Image_Alt_Text |-> IF with_img THEN image_pairs[1].alt ELSE <<>>]

\* (a slip that would put the image-only rows after the last variant row)
ProductRows_mut(r, handle, title, combos, fl, skus, image_pairs) ==
    FlatRange(Len(combos), LAMBDA x :
        <<VariantRow(r, handle, title, combos[x + 1], fl, skus,
                     image_pairs, x + 1)>>)
    \o (IF image_pairs # <<>> THEN ExtraImageRows(handle, image_pairs)
        ELSE <<>>)

\* the rows the loop over combos appends for one product
ProductRows(r, handle, title, combos, fl, skus, image_pairs) ==
    FlatRange(Len(combos), LAMBDA x :
        IF x = 0 /\ image_pairs # <<>>
        THEN <<VariantRow(r, handle, title, combos[1], fl, skus, image_pairs, 1)>>
             \o ExtraImageRows(handle, image_pairs)
        ELSE <<VariantRow(r, handle, title, combos[x + 1], fl, skus,
                          image_pairs, x + 1)>>)

\* "Empty price for variant #n" errors of the loop over combos
EmptyPriceIssues(fl, nvars, excel_row) ==
    FlatRange(nvars, LAMBDA x :
        IF fl.vprice_list[x + 1] = <<>>
        THEN <<Issue("error", excel_row, "Variant Price*")>> ELSE <<>>)

\* the answers check_image_url can give for a value that is a URL
ProbeOutcomes == {"OK", "HTTP", "Content-Type", "Error"}

\* the image_results entries of one product; net gives the answer of the
\* network for each position
ProbeResults(handle, image_pairs, net) ==
    [x \in 1..Len(image_pairs) |->
        LET u == image_pairs[x].url
        IN  [handle |-> handle, position |-> x, url |-> u,
             ok   |-> is_url(u) /\ net[x] = "OK",
             note |-> IF is_url(u) THEN net[x] ELSE "Not a URL"]]

\* the answers of the network for the images of one product
NetChoices(image_pairs) ==
    { net \in [1..Len(image_pairs) -> ProbeOutcomes] :
        \A x \in 1..Len(image_pairs) :
            ~is_url(image_pairs[x].url) => net[x] = "Error" }

\* highest_prev_base after the AMS_START_BASE override
SeedAfterEnv(prev_base, env_base) ==
    IF env_base # <<>> /\ \A x \in 1..Len(env_base) : IsDigit(env_base[x])
    THEN ParseInt(env_base) ELSE prev_base

\* next_base before the loop
FirstBase(highest_prev_base) ==
    IF highest_prev_base # 0 THEN highest_prev_base + 1 ELSE DefaultBase

\* the state before the loop, for a previous base and an AMS_START_BASE value
BuildStart(prev_base, env_base, respect) ==
    /\ respect_existing = respect
    /\ highest_before = SeedAfterEnv(prev_base, env_base)
    /\ next_base = FirstBase(SeedAfterEnv(prev_base, env_base))
    /\ df = <<>> /\ df_sku = <<>>
    /\ used_handles = {} /\ handles = <<>>
    /\ rows = <<>> /\ row_src = <<>>
    /\ issues = <<>>
    /\ image_results = <<>>

\* what one iteration of the loop of build_shopify_rows does on row r of the
\* sheet, from the locals nb (next_base) and used (used_handles); net is
\* what the network answers to the probes of the images of r.  The result
\* holds the new next_base, the handle, the cell written back to
\* df["Variant SKU"], and what is appended to rows, issues and image_results.
LoopBody(r, excel_row, respect, nb, used, net) ==
    LET title      == Strip(r.Title)
        vendor     == Strip(r.Vendor)
        handle_src == IF Strip(r.Handle_opt) # <<>> THEN Strip(r.Handle_opt)
                      ELSE IF title # <<>> THEN title
                      ELSE <<"p", "r", "o", "d", "u", "c", "t", "-">> \o DecStr(excel_row)
        handle     == uniqueness_suffix(used, slugify_str(handle_src))
        head_issues ==
            (IF title = <<>> THEN <<Issue("error", excel_row, "Title*")>> ELSE <<>>)
            \o (IF vendor = <<>> THEN <<Issue("error", excel_row, "Vendor*")>>
                ELSE <<>>)
        o      == OptionLists(r)
        n1     == Len(o.o1vals)
        n2     == Len(o.o2l)
        n3     == Len(o.o3l)
        combos == Combos(o)
        nvars  == Len(combos)
    IN  IF nvars > VariantCap
        THEN [handle |-> handle, next_base |-> nb, sku_cell |-> r.Variant_SKU,
              rows |-> <<>>, image_results |-> <<>>,
              issues |-> head_issues
                           \o <<Issue("error", excel_row, "Options")>>]
        ELSE LET fl  == FieldLists(r, o, n1, n2, n3, nvars, excel_row)
                 image_pairs == ImagePairs(r)
                 a   == AssignSkus(r, n1, n2, n3, nvars, respect, nb)
             IN  [handle |-> handle, next_base |-> a.next_base,
                  sku_cell |-> JoinPipe(a.skus),
                  rows |-> ProductRows(r, handle, title, combos, fl, a.skus,
                                       image_pairs),
                  image_results |-> ProbeResults(handle, image_pairs, net),
                  issues |-> head_issues \o fl.warns
                               \o (IF a.warn
                                   THEN <<Issue("warning", excel_row,
                                                "Variant SKU")>>
                                   ELSE <<>>)
                               \o EmptyPriceIssues(fl, nvars, excel_row)]

\* one iteration of the loop of build_shopify_rows, on the next row r of the
\* sheet
ProcessRow(r, net) ==
    \E b \in {LoopBody(r, Len(df) + 2, respect_existing, next_base,
                       used_handles, net)} :
        /\ df' = Append(df, r)
        /\ used_handles' = used_handles \cup {b.handle}
        /\ handles' = Append(handles, b.handle)
        /\ next_base' = b.next_base
        /\ df_sku' = Append(df_sku, b.sku_cell)
        /\ image_results' = image_results \o b.image_results
        /\ rows' = rows \o b.rows
        /\ row_src' = row_src \o Repeat(Len(df) + 2, Len(b.rows))
        /\ issues' = issues \o b.issues
        /\ UNCHANGED <<respect_existing, highest_before, bvars, dvars, pvars,
                       wvars, cvars>>

-----------------------------------------------------------------------------
(* final-script.py: load_prev_highest_base.  A previous export is modelled *)
(* by whether the file exists, whether it has a "Variant SKU" column, and  *)
(* the text of the cells of that column, top down (a cell without value is *)
(* the empty text after fillna); the validation also looks at whether a    *)
(* path is given, whether pandas can read the file, and at the cells of    *)
(* the "Title" column.                                                     *)

NanText == <<"n", "a", "n">>

\* (a slip that would never give the first cell priority)
TopCell_mut(col) == <<>>

\* top_cell: the first cell that is not empty once cleaned, cleaned; the
\* empty text stands for None
TopCell(col) ==
    LET filled == { x \in 1..Len(col) :
                      /\ clean_sku_text(col[x]) # <<>>
                      /\ Lower(clean_sku_text(col[x])) # NanText }
    IN  IF filled = {} THEN <<>>
        ELSE clean_sku_text(col[CHOOSE x \in filled : \A y \in filled : x <= y])

\* max(bases_prev) if bases_prev else 0
MaxBase(col) ==
    LET bases_prev == { extract_base_6(clean_sku_text(col[x])) :
                          x \in 1..Len(col) } \ {-1}
    IN  IF bases_prev = {} THEN 0
        ELSE CHOOSE b \in bases_prev : \A c \in bases_prev : c <= b

load_prev_highest_base(p) ==
    IF ~p.exists THEN 0
    ELSE IF ~p.has_column THEN 0
    ELSE LET col      == [x \in 1..Len(p.sku) |-> Strip(p.sku[x])]
             top_cell == TopCell(col)
         IN  IF top_cell # <<>> /\ extract_base_6(top_cell) # -1
             THEN extract_base_6(top_cell)
             ELSE MaxBase(col)

-----------------------------------------------------------------------------
(* The input rows of the checks *)

\* a pipe-list of n distinct option values "<c>1" .. "<c>n"
OptVals(c, n) == [x \in 1..n |-> <<c>> \o DecStr(x)]

\* a row with a title, a vendor and a price, and nothing else
PlainRow ==
    [Title |-> <<"a">>, Vendor |-> <<"v">>, Handle_opt |-> <<>>,
     Option1_Name |-> <<>>, Option1_Values |-> <<>>,
     Option2_Name |-> <<>>, Option2_Values |-> <<>>,
     Option3_Name |-> <<>>, Option3_Values |-> <<>>,
     Variant_Price |-> <<<<"9">>>>, Variant_Compare_At_Price |-> <<>>,
     Variant_Inventory |-> <<>>, Variant_Barcode |-> <<>>,
     Variant_Grams |-> <<>>, Variant_Weight |-> <<>>,
     Variant_Weight_Unit |-> <<>>, Variant_Requires_Shipping |-> <<>>,
     Variant_Taxable |-> <<>>, Variant_SKU |-> <<>>,
     images |-> <<>>, cols |-> <<>>]

\* the token "t<i>"
Tok(i) == <<"t">> \o DecStr(i)

\* a pipe-list of len distinct tokens
TokCell(len) == [i \in 1..len |-> Tok(i)]

\* the option cells of a row with n1, n2, n3 values; a dimension of 0
\* values is left blank
WithGrid(r, n1, n2, n3) ==
    [r EXCEPT
       !.Option1_Name   = IF n1 = 0 THEN <<>> ELSE <<"S", "i", "z", "e">>,
       !.Option1_Values = OptVals("M", n1),
       !.Option2_Name   = IF n2 = 0 THEN <<>> ELSE <<"C", "o", "l", "o", "u", "r">>,
       !.Option2_Values = OptVals("c", n2),
       !.Option3_Name   = IF n3 = 0 THEN <<>> ELSE <<"F", "i", "t">>,
       !.Option3_Values = OptVals("f", n3)]

\* the cells "Image URL 1" .. "Image URL 8" of a row
ImageCells == 8

\* n filled image cells; the first is a URL when url is true
WithImages(r, n, url) ==
    [r EXCEPT !.images =
        [x \in 1..n |->
            [url |-> IF url /\ x = 1 THEN <<"h", "t", "t", "p", ":", "/", "/", "i">> ELSE <<"i">> \o DecStr(x),
             alt |-> <<"a">> \o DecStr(x)]]]

\* option grids of the rows: none, 2, 2x2, 2x2x2, and 7x43 = 301 > 300
Grids == { <<0, 0, 0>>, <<2, 0, 0>>, <<2, 2, 0>>, <<2, 2, 2>>, <<7, 43, 0>> }

GridRows ==
    { WithGrid(PlainRow, g[1], g[2], g[3]) : g \in Grids }
    \cup { WithImages(WithGrid(PlainRow, g[1], g[2], g[3]), MaxImages, FALSE) :
             g \in { <<0, 0, 0>>, <<2, 2, 0>>, <<7, 43, 0>> } }
    \cup { [WithGrid(PlainRow, 2, 2, 0) EXCEPT !.Option2_Name = <<>>],
           WithImages(WithGrid(PlainRow, 2, 0, 0), 1, TRUE) }

\* rows with a canonical barcode pipe-list of 1, 2 or 4 tokens
BarcodeRows ==
    { [WithGrid(PlainRow, 2, 2, 0) EXCEPT !.Variant_Barcode = TokCell(len)] :
        len \in {1, 2, 4} }

\* rows with a blank barcode cell and per-size columns
SizeColumns ==
    { << [name |-> <<"B", "a", "r", "c", "o", "d", "e", " ", "M", "1">>, val |-> <<"X">>] >>,
      << [name |-> <<"B", "a", "r", "c", "o", "d", "e", " ", "M", "1">>, val |-> <<"X">>],
         [name |-> <<"b", "a", "r", "c", "o", "d", "e", "_", "m", "2">>, val |-> <<"Y">>] >>,
      << [name |-> <<"B", "a", "r", "c", "o", "d", "e", "-", "M", "3">>, val |-> <<"Z">>],
         [name |-> <<"B", "a", "r", "c", "o", "d", "e", " ", "M", "1">>, val |-> <<"X">>],
         [name |-> <<"G", "r", "a", "m", "s", " ", "M", "3">>, val |-> <<"7">>],
         [name |-> <<"B", "a", "r", "c", "o", "d", "e", "s">>, val |-> <<"W">>] >> }

SizeColumnRows ==
    { [WithGrid(PlainRow, 2, 0, 0) EXCEPT !.cols = c] : c \in SizeColumns }
    \cup { [WithGrid(PlainRow, 3, 2, 0) EXCEPT !.cols = c] :
             c \in { c2 \in SizeColumns : Len(c2) > 2 } }

\* a row with all its image cells filled but the third (7 images), the
\* fifth without alt text
ImageRows ==
    { [WithImages(WithGrid(PlainRow, 2, 0, 0), ImageCells, FALSE) EXCEPT
          !.images[3].url = <<>>, !.images[5].alt = <<>>] }

\* rows that come with a Variant SKU cell: full, short, and with a blank slot
SkuCells ==
    { <<<<"A">>>>, <<<<"A">>, <<>>, <<"C">>>>, <<<<"A">>, <<"B">>, <<"C">>>> }

SkuRows ==
    { [WithGrid(PlainRow, 3, 0, 0) EXCEPT !.Variant_SKU = c] : c \in SkuCells }
    \cup { [PlainRow EXCEPT !.Variant_SKU = <<<<"A">>>>] }

\* rows with blank mandatory cells, and with weights
OtherRows ==
    { [PlainRow EXCEPT !.Title = <<>>, !.Vendor = <<>>, !.Variant_Price = <<>>],
      [WithGrid(PlainRow, 2, 0, 0) EXCEPT
          !.Variant_Weight = <<<<"2">>, <<"3">>, <<"4">>>>,
          !.Variant_Weight_Unit = <<<<"K", "G">>>>,
          !.Variant_Inventory = <<<<"0">>, <<"5">>>>,
          !.Variant_Taxable = <<<<"n", "o">>>>] }

BuildRows == GridRows \cup BarcodeRows \cup SizeColumnRows \cup SkuRows
                 \cup OtherRows \cup ImageRows

\* previous highest base and AMS_START_BASE of a run
SeedInputs ==
    { <<0, <<>> >>, <<110373, <<>> >>, <<110373, <<"2", "0", "0", "0", "0", "0">>>>,
      <<0, <<"x", "1">>>> }

\* no second execution
Run2Idle ==
    run2 = [started |-> FALSE, highest_before |-> 0, next_base |-> 0,
            used_handles |-> {}, df_sku |-> <<>>, rows |-> <<>>,
            issues |-> <<>>]

KInit ==
    /\ \E sd \in SeedInputs, respect \in BOOLEAN :
          BuildStart(sd[1], sd[2], respect)
    /\ Run2Idle

BInitIdle ==
    /\ bc_in = [cell |-> <<>>, n1 |-> 1, n2 |-> 1, n3 |-> 1]
    /\ bc_out = <<>> /\ bc_issues = <<>> /\ bc_pc = "done"

BuildStep ==
    /\ Len(df) < MaxProducts
    /\ \E r \in BuildRows : \E net \in NetChoices(ImagePairs(r)) :
           ProcessRow(r, net)
    /\ UNCHANGED run2

-----------------------------------------------------------------------------
(* broadcast_values called on its own, on every cell and grid of the bounds *)

\* the same with an empty part put in front of part at (0 = none)
WithEmptyPart(cell, at) ==
    IF at = 0 THEN cell
    ELSE SubSeq(cell, 1, at - 1) \o << <<>> >> \o SubSeq(cell, at, Len(cell))

BcCells ==
    { WithEmptyPart(TokCell(len), at) : len \in 1..MaxTokens, at \in 0..2 }
        \cup { <<>> }

BcInit ==
    /\ bc_in \in [cell : BcCells, n1 : 1..MaxDim, n2 : 1..MaxDim, n3 : 1..MaxDim]
    /\ bc_out = <<>>
    /\ bc_issues = <<>>
    /\ bc_pc = "call"

BroadcastCall ==
    /\ bc_pc = "call"
    /\ LET r == broadcast_values(bc_in.cell, bc_in.n1, bc_in.n2, bc_in.n3)
       IN  /\ bc_out' = r.out
           /\ bc_issues' = bc_issues \o WarnIf(r, 2, "f")
    /\ bc_pc' = "done"
    /\ UNCHANGED <<bc_in, kvars, dvars, pvars, wvars, cvars>>

(* The dashboard and the build are at rest while broadcast_values is checked *)
KInitIdle ==
    /\ df = <<>> /\ df_sku = <<>> /\ respect_existing = FALSE
    /\ highest_before = 0 /\ next_base = 0 /\ used_handles = {}
    /\ handles = <<>>
    /\ rows = <<>> /\ row_src = <<>> /\ issues = <<>> /\ image_results = <<>>
    /\ Run2Idle

\* None in the place of an exit status: no status recorded; it is no status
\* a process exits with and not the -1 of a failed launch
NoStatus == -2

\* DashboardFrame.__init__
DInitIdle ==
    /\ last_validation = [ran |-> FALSE, has_errors |-> FALSE, codes |-> {}]
    /\ proceed_despite_errors = FALSE
    /\ phase = "idle"
    /\ btn_validate = "normal" /\ btn_run = "normal"
    /\ q = <<>>
    /\ poll = "none"
    /\ thread = [kind |-> "none"]
    /\ last_exit_code = NoStatus
    /\ sheet = [path |-> FALSE, readable |-> FALSE, cols |-> {}, rows |-> <<>>]
    /\ launched = <<>>
    /\ builder = [pc |-> "none", inp |-> "none", rc |-> NoStatus, steps |-> <<>>]

\* no previous export is given
NoPrev ==
    [given |-> FALSE, exists |-> FALSE, readable |-> FALSE,
     has_column |-> FALSE, sku |-> <<>>, has_title |-> FALSE, titles |-> <<>>]

\* a readable previous export of the given "Variant SKU" and "Title" cells
PrevFile(has_column, sku, has_title, titles) ==
    [given |-> TRUE, exists |-> TRUE, readable |-> TRUE,
     has_column |-> has_column, sku |-> sku,
     has_title |-> has_title, titles |-> titles]

\* no previous export is being read
PInitIdle ==
    /\ prev = NoPrev
    /\ seed_out = 0
    /\ seed_pc = "done"

\* no validation is being run on its own
WInitIdle ==
    /\ vin = [sheet |-> [readable |-> FALSE, cols |-> {}, rows |-> <<>>],
              net |-> <<>>]
    /\ vout = [token |-> "none", codes |-> {}, rows107 |-> {}, rows112 |-> {}]
    /\ vpc = "done"

\* a server answer: a response with its status and Content-Type header (the
\* empty text when the header is missing), or a transport failure
Response(status, ctype) == [kind |-> "resp", status |-> status, ctype |-> ctype]
TransportFailure == [kind |-> "fail", status |-> 0, ctype |-> <<>>]

\* no probe is being made
CInitIdle ==
    /\ probe_in = [url |-> <<>>, installed |-> TRUE,
                   head |-> TransportFailure, get |-> TransportFailure]
    /\ probe_out = [ok |-> FALSE, note |-> "none", status |-> 0, sent |-> <<>>]
    /\ probe_pc = "done"

BroadcastInit ==
    BcInit /\ KInitIdle /\ DInitIdle /\ PInitIdle /\ WInitIdle /\ CInitIdle

BroadcastNext == BroadcastCall

SpecBroadcast == BroadcastInit /\ [][BroadcastNext]_vars

BuildInit ==
    KInit /\ BInitIdle /\ DInitIdle /\ PInitIdle /\ WInitIdle /\ CInitIdle

BuildNext == BuildStep

SpecBuild == BuildInit /\ [][BuildNext]_vars

-----------------------------------------------------------------------------
(* Properties of broadcast_values *)

BcVals  == split_pipe(bc_in.cell)
BcTotal == bc_in.n1 * bc_in.n2 * bc_in.n3

\* position (1-based) of combination (i, j, k), 0-based indices, in the
\* dimension-1-major, dimension-2-middle, dimension-3-minor order
ComboPos(i, j, k, n2, n3) == i * n2 * n3 + j * n3 + k + 1

\* the lengths broadcast_values resolves without a warning
BcMatches(len, n1, n2, n3) ==
    \/ len \in {n1 * n2 * n3, 0, 1, n1, n2, n3}
    \/ len = n1 * n2 /\ n3 > 1
    \/ len = n1 * n3 /\ n2 > 1
    \/ len = n2 * n3 /\ n1 > 1

\* the value the first matching rule gives combination (i, j, k)
BcRuleValue(vals, n1, n2, n3, i, j, k) ==
    LET len == Len(vals)
    IN  IF len = n1 * n2 * n3 THEN vals[ComboPos(i, j, k, n2, n3)]
        ELSE IF len = 0 THEN <<>>
        ELSE IF len = 1 THEN vals[1]
        ELSE IF len = n1 THEN vals[i + 1]
        ELSE IF len = n2 THEN vals[j + 1]
        ELSE IF len = n3 THEN vals[k + 1]
        ELSE IF len = n1 * n2 /\ n3 > 1 THEN vals[i * n2 + j + 1]
        ELSE IF len = n1 * n3 /\ n2 > 1 THEN vals[i * n3 + k + 1]
        ELSE vals[j * n3 + k + 1]

\* C6: whenever the number of tokens matches one of total, 0, 1, n1, n2, n3,
\* n1*n2 (n3>1), n1*n3 (n2>1), n2*n3 (n1>1), the list broadcast_values
\* returns holds, at every combination (i, j, k), the value of the first
\* rule that matches; a list of total tokens is returned unchanged, and a
\* list whose length is both n1 and n2 varies by dimension 1 only.
C6_FirstMatchWins ==
    (bc_pc = "done" /\ BcMatches(Len(BcVals), bc_in.n1, bc_in.n2, bc_in.n3)) =>
        /\ \A i \in 0..(bc_in.n1 - 1), j \in 0..(bc_in.n2 - 1),
              k \in 0..(bc_in.n3 - 1) :
              LET pos == ComboPos(i, j, k, bc_in.n2, bc_in.n3)
              IN  /\ pos \in DOMAIN bc_out
                  /\ bc_out[pos] = BcRuleValue(BcVals, bc_in.n1, bc_in.n2,
                                                bc_in.n3, i, j, k)
        /\ Len(BcVals) = BcTotal => bc_out = BcVals

\* a call where the length is both n1 and n2 but not total, and the two
\* readings differ
C6_Witness ==
    /\ bc_pc = "done"
    /\ Len(BcVals) = bc_in.n1 /\ bc_in.n1 = bc_in.n2 /\ bc_in.n1 > 1
    /\ Len(BcVals) # BcTotal
    /\ bc_out[ComboPos(0, 1, 0, bc_in.n2, bc_in.n3)] = BcVals[1]
    /\ bc_out[ComboPos(1, 0, 0, bc_in.n2, bc_in.n3)] = BcVals[2]

\* C7: for every raw cell and every n1, n2, n3 >= 1 the list returned by
\* broadcast_values has exactly n1*n2*n3 elements.
C7_LengthIsTotal ==
    bc_pc = "done" => Len(bc_out) = BcTotal

\* the token counts that match a rule, as listed: 0, 1, n1, n2, n3, n1*n2,
\* n1*n3, n2*n3 and total
BcListed(len, n1, n2, n3) ==
    len \in {0, 1, n1, n2, n3, n1 * n2, n1 * n3, n2 * n3, n1 * n2 * n3}

\* C20: when the number of tokens is none of 0, 1, n1, n2, n3, n1*n2, n1*n3,
\* n2*n3 and total, broadcast_values appends exactly one warning for the
\* row and field of the call and returns the tokens followed by copies of
\* the last one up to total (fewer than total) or the first total tokens
\* (more than total); when it is one of them no issue is appended; and the
\* call returns a list of total values in every case.
C20_MismatchWarnsAndRepairs ==
    bc_pc = "done" =>
        /\ Len(bc_out) = BcTotal
        /\ IF BcListed(Len(BcVals), bc_in.n1, bc_in.n2, bc_in.n3)
           THEN bc_issues = <<>>
           ELSE /\ bc_issues = << [level |-> "warning", row |-> 2, field |-> "f"] >>
                /\ \A x \in 1..BcTotal :
                      bc_out[x] = IF x <= Len(BcVals) THEN BcVals[x]
                                  ELSE BcVals[Len(BcVals)]

\* five tokens for a grid of 2 x 2 x 1: one warning and the first four
\* tokens
C20_Witness ==
    /\ bc_pc = "done"
    /\ bc_in.n1 = 2 /\ bc_in.n2 = 2 /\ bc_in.n3 = 1
    /\ Len(BcVals) = 5
    /\ Len(bc_issues) = 1
    /\ bc_out = SubSeq(BcVals, 1, 4)

\* three tokens for a grid of 2 x 2 x 1: one warning and the last token
\* twice
C20_WitnessShort ==
    /\ bc_pc = "done"
    /\ bc_in.n1 = 2 /\ bc_in.n2 = 2 /\ bc_in.n3 = 1
    /\ Len(BcVals) = 3
    /\ Len(bc_issues) = 1
    /\ bc_out = Append(BcVals, BcVals[3])

\* a call that had to repair a list shorter than the grid
C7_Witness ==
    /\ bc_pc = "done"
    /\ bc_issues # <<>>
    /\ Len(BcVals) < BcTotal
    /\ Len(bc_in.cell) > Len(BcVals)
    /\ Len(bc_out) = BcTotal

-----------------------------------------------------------------------------
(* Properties of build_shopify_rows *)

\* a sheet with a product of 10 x 10 = 100 variants among its rows
WideRows ==
    { PlainRow, WithGrid(PlainRow, 2, 0, 0), WithGrid(PlainRow, 10, 10, 0),
      WithGrid(PlainRow, 7, 43, 0) }

WideStep ==
    /\ Len(df) < MaxProducts
    /\ \E r \in WideRows : \E net \in NetChoices(ImagePairs(r)) :
           ProcessRow(r, net)
    /\ UNCHANGED run2

WideNext == WideStep

SpecBuildWide == BuildInit /\ [][WideNext]_vars

\* the sheet rows processed so far, by position in the sheet (1-based);
\* row x of the sheet is Excel row x + 1
Products == 1..Len(df)

\* number of values of each dimension of a row: Option1 counts 1 when it
\* has no value; Option2 and Option3 count 1 when the dimension is absent
\* (no name or no value)
Dim1(r) == Max(1, Len(split_pipe(r.Option1_Values)))
Dim2(r) == IF r.Option2_Name = <<>> \/ split_pipe(r.Option2_Values) = <<>>
           THEN 1 ELSE Len(split_pipe(r.Option2_Values))
Dim3(r) == IF r.Option3_Name = <<>> \/ split_pipe(r.Option3_Values) = <<>>
           THEN 1 ELSE Len(split_pipe(r.Option3_Values))
NVariants(r) == Dim1(r) * Dim2(r) * Dim3(r)

Accepted(x) == NVariants(df[x]) <= VariantCap

\* the value of a dimension at 0-based index m
Dim1Value(r, m) == IF split_pipe(r.Option1_Values) = <<>> THEN DefaultTitle
                   ELSE split_pipe(r.Option1_Values)[m + 1]
Dim2Value(r, m) == IF Dim2(r) = 1 /\ (r.Option2_Name = <<>>
                                       \/ split_pipe(r.Option2_Values) = <<>>)
                   THEN <<>> ELSE split_pipe(r.Option2_Values)[m + 1]
Dim3Value(r, m) == IF Dim3(r) = 1 /\ (r.Option3_Name = <<>>
                                       \/ split_pipe(r.Option3_Values) = <<>>)
                   THEN <<>> ELSE split_pipe(r.Option3_Values)[m + 1]

\* the positions in rows of the rows built from sheet row x, in order
RowIdx(x) == { y \in 1..Len(rows) : row_src[y] = x + 1 }

\* a row of the output that carries a variant (an image-only row has every
\* column but Handle and the image columns blank)
IsVariantRow(row) == row.Option1_Value # <<>>

\* the variant rows of sheet row x, in output order
VariantRows(x) ==
    SelectSeq([y \in 1..Len(rows) |-> [row |-> rows[y], src |-> row_src[y]]],
              LAMBDA e : e.src = x + 1 /\ IsVariantRow(e.row))

\* C1: a product of n1*n2*n3 <= 300 combinations has exactly one variant row
\* per combination, in dimension-1-major, dimension-2-middle,
\* dimension-3-minor order; a product of more than 300 has no row at all and
\* an error issue on its sheet row, and the products after it are processed
\* all the same.
C1_CartesianRowsOrReject ==
    \A x \in Products :
        LET r  == df[x]
            vr == VariantRows(x)
        IN  IF NVariants(r) <= VariantCap
            THEN /\ Len(vr) = NVariants(r)
                 /\ \A i \in 0..(Dim1(r) - 1), j \in 0..(Dim2(r) - 1),
                       k \in 0..(Dim3(r) - 1) :
                       LET row == vr[ComboPos(i, j, k, Dim2(r), Dim3(r))].row
                       IN  /\ row.Option1_Value = Dim1Value(r, i)
                           /\ row.Option2_Value = Dim2Value(r, j)
                           /\ row.Option3_Value = Dim3Value(r, k)
            ELSE /\ RowIdx(x) = {}
                 /\ \E n \in 1..Len(issues) :
                       issues[n] = Issue("error", x + 1, "Options")

\* a rejected product followed by an accepted one with 2 x 2 x 2 variant rows
C1_Witness ==
    /\ Len(df) >= 2
    /\ NVariants(df[1]) > VariantCap
    /\ RowIdx(1) = {}
    /\ NVariants(df[2]) = 8
    /\ Len(VariantRows(2)) = 8

\* start: seed + 1, or the default when there is no seed
StartBase == IF highest_before > 0 THEN highest_before + 1 ELSE DefaultBase

\* number of accepted products among the first x rows of the sheet
AcceptedUpTo(x) == Cardinality({ y \in 1..x : Accepted(y) })

\* the number written before the "-" of a SKU (the whole SKU without one)
SkuBaseText(sku) ==
    IF \E n \in 1..Len(sku) : sku[n] = "-"
    THEN SubSeq(sku, 1, (CHOOSE n \in 1..Len(sku) :
                           sku[n] = "-" /\ \A m \in 1..(n-1) : sku[m] # "-") - 1)
    ELSE sku

\* C2: with respect-existing off, the k-th accepted product has base
\* start + k - 1 on every one of its SKUs, whatever its number of variants,
\* and next_base stands at start + (number of accepted products): a rejected
\* product takes no base.
C2_OneBasePerAcceptedProduct ==
    ~respect_existing =>
        /\ next_base = StartBase + AcceptedUpTo(Len(df))
        /\ \A x \in Products : Accepted(x) =>
              \A n \in 1..Len(VariantRows(x)) :
                  LET txt == SkuBaseText(VariantRows(x)[n].row.Variant_SKU)
                  IN  /\ txt # <<>>
                      /\ \A m \in 1..Len(txt) : IsDigit(txt[m])
                      /\ ParseInt(txt) = StartBase + AcceptedUpTo(x) - 1

\* a rejected product, then a product of several variants that takes the
\* first base
C2_Witness ==
    /\ ~respect_existing
    /\ Len(df) = 2
    /\ ~Accepted(1) /\ Accepted(2) /\ NVariants(df[2]) > 1
    /\ next_base = StartBase + 1
    /\ highest_before > 0

\* C3: a product given fresh SKUs has, with one variant, the 6-digit base
\* alone and, with n > 1 variants, base-JJ on variant j, JJ being j on two
\* digits and the base shared; so every SKU matches ^\d{6}(-\d{2})?$ .
C3_SkuFormat ==
    \A x \in Products :
        (Accepted(x) /\ (~respect_existing
                          \/ split_pipe(df[x].Variant_SKU) = <<>>)) =>
            LET vr     == VariantRows(x)
                sku(j) == vr[j].row.Variant_SKU
            IN  \A j \in 1..Len(vr) :
                    /\ StrictSkuMatch(sku(j))
                    /\ IF Len(vr) = 1 THEN Len(sku(j)) = 6
                       ELSE /\ Len(sku(j)) = 9
                            /\ ParseInt(SubSeq(sku(j), 8, 9)) = j
                            /\ SubSeq(sku(j), 1, 6) = SubSeq(sku(1), 1, 6)

\* the parts of a Variant SKU cell, one per variant, some blank, some not
MixedSkuCell(r) ==
    /\ Len(r.Variant_SKU) = NVariants(r)
    /\ \E n \in 1..Len(r.Variant_SKU) : r.Variant_SKU[n] = <<>>
    /\ \E n \in 1..Len(r.Variant_SKU) : r.Variant_SKU[n] # <<>>

\* C5: in respect-existing mode, a product whose Variant SKU cell has blank
\* and non-blank slots keeps every non-blank SKU at its own position, gets a
\* newly generated SKU at each blank position, and moves next_base by
\* exactly 1.
C5_KeepAndFillBlanks ==
    [][ (respect_existing /\ df' # df /\ MixedSkuCell(Last(df'))) =>
            LET cell == Last(df').Variant_SKU
                got  == Last(df_sku')
            IN  /\ Len(got) = Len(cell)
                /\ \A n \in 1..Len(cell) :
                      IF cell[n] # <<>> THEN got[n] = cell[n]
                      ELSE /\ StrictSkuMatch(got[n])
                           /\ ParseInt(SubSeq(got[n], 1, 6)) = next_base
                /\ next_base' = next_base + 1 ]_vars

\* C8: a barcode pipe-list with one token per variant is assigned to the
\* variants by position; with 2 Option1 values, 2 Option2 values and the
\* list b1|b2|b3|b4 the four rows carry b1, b2, b3, b4.
C8_BarcodeByPosition ==
    \A x \in Products :
        LET toks == split_pipe(df[x].Variant_Barcode)
            vr   == VariantRows(x)
        IN  (Accepted(x) /\ Len(toks) = NVariants(df[x]) /\ Len(toks) > 1) =>
                \A n \in 1..Len(vr) : vr[n].row.Variant_Barcode = toks[n]

\* the "Barcode <suffix>" columns of a row that are filled
FilledBarcodeColumns(r) ==
    PerSizeColumns(r.cols, <<"b", "a", "r", "c", "o", "d", "e">>)

\* C9: with a blank barcode cell and a filled per-suffix column, a variant
\* carries the value of the column whose suffix is its Option1 value
\* (case-insensitive), and the empty string when there is no such column.
C9_BarcodeBySuffix ==
    \A x \in Products :
        LET r     == df[x]
            pcols == FilledBarcodeColumns(r)
            vr    == VariantRows(x)
        IN  (Accepted(x) /\ r.Variant_Barcode = <<>> /\ pcols # <<>>) =>
                \A n \in 1..Len(vr) :
                    LET key  == Lower(Strip(vr[n].row.Option1_Value))
                        hits == { c \in 1..Len(pcols) :
                                    Lower(ColumnSuffix(Strip(pcols[c].name))) = key }
                    IN  IF hits = {} THEN vr[n].row.Variant_Barcode = <<>>
                        ELSE \E c \in hits :
                                vr[n].row.Variant_Barcode = Strip(pcols[c].val)

\* positions of the variant rows and of the image-only rows of sheet row x
VariantIdx(x) == { y \in RowIdx(x) : IsVariantRow(rows[y]) }
ImageIdx(x)   == { y \in RowIdx(x) : ~IsVariantRow(rows[y]) }

\* the rows of sheet row x lie together in the output
Contiguous(x) ==
    \A y \in RowIdx(x), z \in RowIdx(x) : \A m \in y..z : m \in RowIdx(x)

ManyVariantsAndImages(x) ==
    /\ Accepted(x) /\ NVariants(df[x]) > 1 /\ Len(ImagePairs(df[x])) > 1

\* C10 as stated: the image-only rows of a product of several variants and
\* images come after the last of its variant rows, with no row of another
\* product in between.
C10_ImagesAfterLastVariant ==
    \A x \in Products : ManyVariantsAndImages(x) =>
        /\ Contiguous(x)
        /\ \A v \in VariantIdx(x), m \in ImageIdx(x) : v < m

\* C10 amended: the image-only rows of such a product come, in image
\* order, right after the first of its variant rows and before its other
\* variant rows, with no row of another product in between.
C10_ImagesAfterFirstVariant ==
    \A x \in Products : ManyVariantsAndImages(x) =>
        LET first == CHOOSE y \in RowIdx(x) : \A z \in RowIdx(x) : y <= z
            m     == Len(ImagePairs(df[x]))
        IN  /\ Contiguous(x)
            /\ IsVariantRow(rows[first])
            /\ ImageIdx(x) = (first + 1)..(first + m - 1)
            /\ \A z \in ImageIdx(x) :
                  rows[z].Image_Position = DecStr(z - first + 1)
            /\ \A v \in VariantIdx(x) : v = first \/ v > first + m - 1

\* a product of four variants and several images, after another product
C10_Witness ==
    /\ Len(df) = 2
    /\ Accepted(1)
    /\ ManyVariantsAndImages(2)
    /\ Cardinality(VariantIdx(2)) = 4
    /\ ImageIdx(2) # {}

\* the filled image cells of a sheet row, in cell order
FilledImages(r) == SelectSeq(r.images, LAMBDA im : im.url # <<>>)

\* the positions in rows of the rows that bear the Handle of sheet row x
HandleRows(x) == { y \in 1..Len(rows) : rows[y].Handle = handles[x] }

\* a row in which every column but Handle and the image columns is blank
IsImageOnly(row) ==
    /\ row.Title = <<>>
    /\ row.Option1_Value = <<>> /\ row.Option2_Value = <<>>
    /\ row.Option3_Value = <<>>
    /\ row.Variant_SKU = <<>> /\ row.Variant_Grams = <<>>
    /\ row.Variant_Inventory_Qty = <<>> /\ row.Variant_Price = <<>>
    /\ row.Variant_Compare_At_Price = <<>>
    /\ row.Variant_Requires_Shipping = <<>> /\ row.Variant_Taxable = <<>>
    /\ row.Variant_Barcode = <<>> /\ row.Variant_Weight_Unit = <<>>

\* an accepted product for which a broadcast warned has its variant rows all
\* the same
WarnedProductEmitted ==
    \A x \in Products :
        (Accepted(x) /\ \E n \in 1..Len(issues) :
                           issues[n].level = "warning" /\ issues[n].row = x + 1)
            => Len(VariantRows(x)) = NVariants(df[x])

WarnedProductReached ==
    \E x \in Products :
        /\ Accepted(x) /\ NVariants(df[x]) > 1
        /\ \E n \in 1..Len(issues) :
               issues[n].level = "warning" /\ issues[n].row = x + 1

\* C11: an accepted product of c combinations and m filled image cells has
\* exactly c + max(0, m-1) rows bearing its Handle; when m >= 1 exactly one
\* variant row carries an image, the first row of the product, with the
\* first image, position 1 and its alt text (none when m = 0); and each
\* further image i in 2..m has exactly one row of position i, with its URL
\* and alt text and every other column but Handle blank.
C11_RowCountAndImages ==
    \A x \in Products :
        Accepted(x) =>
            LET r    == df[x]
                imgs == FilledImages(r)
                m    == Len(imgs)
                hr   == HandleRows(x)
                withImage == { y \in hr : IsVariantRow(rows[y])
                                           /\ rows[y].Image_Src # <<>> }
            IN  /\ Cardinality(hr) = NVariants(r) + Max(0, m - 1)
                /\ Cardinality({ y \in hr : IsVariantRow(rows[y]) })
                       = NVariants(r)
                /\ IF m = 0 THEN withImage = {}
                   ELSE /\ withImage = { CHOOSE y \in hr : \A z \in hr : y <= z }
                        /\ \A y \in withImage :
                              /\ rows[y].Image_Src = imgs[1].url
                              /\ rows[y].Image_Position = <<"1">>
                              /\ rows[y].Image_Alt_Text = imgs[1].alt
                /\ \A i \in 2..m :
                      LET at == { y \in hr : rows[y].Image_Position = DecStr(i) }
                      IN  /\ Cardinality(at) = 1
                          /\ \A y \in at :
                                /\ IsImageOnly(rows[y])
                                /\ rows[y].Image_Src = imgs[i].url
                                /\ rows[y].Image_Alt_Text = imgs[i].alt

\* a product of 4 variants and 2 images after a product of 2 variants and 7
\* images: 5 rows and 8 rows
C11_Witness ==
    /\ Len(df) = 2
    /\ Len(FilledImages(df[1])) = 7 /\ NVariants(df[1]) = 2
    /\ Cardinality(HandleRows(1)) = 8
    /\ Len(FilledImages(df[2])) = 2 /\ NVariants(df[2]) = 4
    /\ Cardinality(HandleRows(2)) = 5

-----------------------------------------------------------------------------
(* build_shopify_rows over products whose handles collide *)

\* rows whose handle sources give the same slug: the title "a", the title
\* "A!", the explicit handles "a-1" and "product-3", no title and no handle
\* (product-<row>), a title without letter or digit, and a product of 301
\* combinations with the title "a"
HandleRowsIn ==
    { PlainRow,
      [PlainRow EXCEPT !.Title = <<"A", "!">>],
      [PlainRow EXCEPT !.Handle_opt = <<" ", "a", "-", "1">>],
      [PlainRow EXCEPT !.Title = <<"b">>,
                       !.Handle_opt = <<"p", "r", "o", "d", "u", "c", "t", "-", "3">>],
      [PlainRow EXCEPT !.Title = <<>>],
      [PlainRow EXCEPT !.Title = <<"!">>],
      WithGrid(PlainRow, 7, 43, 0) }

HandleStep ==
    /\ Len(df) < MaxHandleProducts
    /\ \E r \in HandleRowsIn : \E net \in NetChoices(ImagePairs(r)) :
           ProcessRow(r, net)
    /\ UNCHANGED run2

HandleNext == HandleStep

SpecBuildHandles == BuildInit /\ [][HandleNext]_vars

\* C19: within one build no two products are given the same Handle, be
\* their titles or explicit handles the same and be they rejected for
\* having more than 300 combinations or not, and every row emitted for a
\* product carries the Handle of that product.
C19_HandlesUnique ==
    /\ \A x, y \in 1..Len(handles) : x # y => handles[x] # handles[y]
    /\ \A z \in 1..Len(rows) : rows[z].Handle = handles[row_src[z] - 1]
    /\ used_handles = { handles[x] : x \in 1..Len(handles) }

\* the title "a", a rejected product of the same title, and the explicit
\* handle "a-1": the handles a, a-1 and a-1-1
C19_Witness ==
    /\ Len(df) = 3
    /\ NVariants(df[2]) > VariantCap
    /\ handles = << <<"a">>, <<"a", "-", "1">>, <<"a", "-", "1", "-", "1">> >>
    /\ Len(rows) = 2

-----------------------------------------------------------------------------
(* amsons_dashboard.py: text helpers of the validation rules *)

\* re.sub(r"<[^>]*>", "", t): every "<" that has a ">" after it goes with
\* everything up to the first such ">"
RECURSIVE StripTags(_)
StripTags(t) ==
    IF t = <<>> THEN <<>>
    ELSE IF t[1] = "<" /\ \E j \in 2..Len(t) : t[j] = ">"
    THEN LET j == CHOOSE x \in 2..Len(t) :
                      t[x] = ">" /\ \A y \in 2..(x - 1) : t[y] # ">"
         IN  StripTags(SubSeq(t, j + 1, Len(t)))
    ELSE <<t[1]>> \o StripTags(Tail(t))

\* t.replace(old, " ")
RECURSIVE ReplaceBySpace(_, _)
ReplaceBySpace(t, old) ==
    IF Len(t) < Len(old) THEN t
    ELSE IF SubSeq(t, 1, Len(old)) = old
    THEN <<" ">> \o ReplaceBySpace(SubSeq(t, Len(old) + 1, Len(t)), old)
    ELSE <<t[1]>> \o ReplaceBySpace(Tail(t), old)

\* re.sub(r"\s+", " ", t).strip()
CollapseSpaces(t) ==
    LET f[m \in 0..Len(t)] ==
            IF m = 0 THEN <<>>
            ELSE IF t[m] # " " THEN Append(f[m-1], t[m])
            ELSE IF f[m-1] # <<>> /\ Last(f[m-1]) = " " THEN f[m-1]
            ELSE Append(f[m-1], " ")
    IN  Strip(f[Len(t)])

\* tok in t
Contains(t, tok) ==
    \E x \in 1..(Len(t) - Len(tok) + 1) : SubSeq(t, x, x + Len(tok) - 1) = tok

\* bad_tokens of _looks_like_placeholder_body
BadTokens ==
    { <<"l", "o", "r", "e", "m", " ", "i", "p", "s", "u", "m">>, <<"p", "l", "a", "c", "e", "h", "o", "l", "d", "e", "r">>, <<"c", "o", "m", "i", "n", "g", " ", "s", "o", "o", "n">>, <<"t", "b", "d">>, <<"t", "o", " ", "b", "e", " ", "d", "e", "c", "i", "d", "e", "d">>, <<"t", "o", " ", "b", "e", " ", "d", "e", "f", "i", "n", "e", "d">> }

\* the characters of the class of r"[-...\s]+": hyphen, en dash, em dash,
\* bullet and blank (the three that are not ASCII are written by name)
DashChars == {"-", "en-dash", "em-dash", "bullet", " "}

\* the least number of characters of a description that is not too short
MinBodyLen == 20

\* the text of a Body (HTML) cell as _looks_like_placeholder_body cleans it
CleanBody(s) ==
    CollapseSpaces(
        ReplaceBySpace(ReplaceBySpace(StripTags(Lower(Strip(s))), <<"&", "n", "b", "s", "p", ";">>),
                       <<"&", "#", "1", "6", "0", ";">>))

\* (a slip that would not look for the placeholder tokens)
looks_like_placeholder_body_mut(s) ==
    CleanBody(s) # <<>> /\ Len(CleanBody(s)) < MinBodyLen

looks_like_placeholder_body(s) ==
    LET t == CleanBody(s)
    IN  IF t = <<>> THEN FALSE
        ELSE IF Len(t) < MinBodyLen THEN TRUE
        ELSE IF \E tok \in BadTokens : Contains(t, tok) THEN TRUE
        ELSE \A x \in 1..Len(t) : t[x] \in DashChars

HandleMax == 255

\* is_valid_handle: ^[a-z0-9]+(?:-[a-z0-9]+)*$ and at most 255 characters
is_valid_handle(s0) ==
    LET s == Strip(s0)
    IN  \/ s = <<>>
        \/ /\ Len(s) <= HandleMax
           /\ \A x \in 1..Len(s) : IsSlugChar(s[x]) \/ s[x] = "-"
           /\ s[1] # "-" /\ Last(s) # "-"
           /\ \A x \in 1..(Len(s) - 1) : ~(s[x] = "-" /\ s[x + 1] = "-")

\* is_valid_positive_price_token: ^\d+(\.\d+)?$ and float(s) > 0
is_valid_positive_price_token(x) ==
    LET s    == Strip(x)
        dots == { n \in 1..Len(s) : s[n] = "." }
    IN  /\ s # <<>>
        /\ \A n \in 1..Len(s) : IsDigit(s[n]) \/ s[n] = "."
        /\ Cardinality(dots) <= 1
        /\ s[1] # "." /\ Last(s) # "."
        /\ \E n \in 1..Len(s) : IsDigit(s[n]) /\ s[n] # "0"

-----------------------------------------------------------------------------
(* amsons_dashboard.py: the rules of _worker_preflight.  A sheet is       *)
(* modelled by whether pandas can read it, the set of its column names and *)
(* its rows after fillna(""), each a function from the column names to    *)
(* the text of the cell.  net[i][n] is what the probe of "Image URL n" of *)
(* row i answers.                                                          *)

RowsOf(sh) == 1..Len(sh.rows)

HasCol(sh, c) == c \in sh.cols

\* df[c].astype(str).str.strip() at row i
Stripped(sh, i, c) == Strip(sh.rows[i][c])

\* df.get(c, pd.Series([""] * len(df))).astype(str).str.strip() at row i
StrippedOrEmpty(sh, i, c) == IF HasCol(sh, c) THEN Stripped(sh, i, c) ELSE <<>>

\* total: the rows with a non-empty Title*
Total(sh) ==
    IF HasCol(sh, "Title*")
    THEN Cardinality({ i \in RowsOf(sh) : Stripped(sh, i, "Title*") # <<>> })
    ELSE 0

\* Error 104: empty import sheet
EmptyImport(sh) == Len(sh.rows) = 0 \/ Total(sh) = 0

MandatoryCols == {"Title*", "Vendor*", "Variant Price*"}

\* Error 105: missing mandatory
MissingMandatory(sh) ==
    IF \E c \in MandatoryCols : ~HasCol(sh, c) THEN TRUE
    ELSE \E c \in MandatoryCols : \E i \in RowsOf(sh) : Stripped(sh, i, c) = <<>>

\* Error 110: mism_idxs
OptionMismatchIdxs(sh) ==
    IF HasCol(sh, "Option1 Name") \/ HasCol(sh, "Option1 Values")
    THEN { i \in RowsOf(sh) :
             (StrippedOrEmpty(sh, i, "Option1 Name") # <<>>)
                 # (StrippedOrEmpty(sh, i, "Option1 Values") # <<>>) }
    ELSE {}

\* Error 108: invalid_idxs
InvalidPriceIdxs(sh) ==
    IF HasCol(sh, "Variant Price*")
    THEN { i \in RowsOf(sh) :
             /\ Stripped(sh, i, "Variant Price*") # <<>>
             /\ ~is_valid_positive_price_token(Stripped(sh, i, "Variant Price*")) }
    ELSE {}

SeoCols == {"SEO Title", "SEO Description"}
SeoTitleMax == 60
SeoDescMax  == 320

\* Error 106: the rows with a blank cell in a present SEO column
MissingSeoIdxs(sh) ==
    { i \in RowsOf(sh) :
        \E c \in SeoCols : HasCol(sh, c) /\ Stripped(sh, i, c) = <<>> }

\* Error 111: over_idxs
SeoOverIdxs(sh) ==
    { i \in RowsOf(sh) :
        \/ Len(StrippedOrEmpty(sh, i, "SEO Title")) > SeoTitleMax
        \/ Len(StrippedOrEmpty(sh, i, "SEO Description")) > SeoDescMax }

\* (a slip that would look at the lengths only when no SEO cell is blank)
SeoCodes_mut(sh) ==
    IF \E c \in SeoCols : HasCol(sh, c)
    THEN IF MissingSeoIdxs(sh) # {} THEN {"106"}
         ELSE IF SeoOverIdxs(sh) # {} THEN {"111"} ELSE {}
    ELSE {}

\* the block "if present_seo_cols:", with Error 111 inside it
SeoCodes(sh) ==
    IF \E c \in SeoCols : HasCol(sh, c)
    THEN (IF MissingSeoIdxs(sh) # {} THEN {"106"} ELSE {})
           \cup (IF SeoOverIdxs(sh) # {} THEN {"111"} ELSE {})
    ELSE {}

\* Error 107: idxs
MissingBodyIdxs(sh) ==
    IF HasCol(sh, "Title*") /\ HasCol(sh, "Body (HTML)")
    THEN { i \in RowsOf(sh) : /\ Stripped(sh, i, "Title*") # <<>>
                              /\ Stripped(sh, i, "Body (HTML)") = <<>> }
    ELSE {}

\* tnorm at row i
TNorm(sh, i) == Lower(Stripped(sh, i, "Title*"))

\* (a slip that would compare the titles as written)
DupInside_mut(sh) ==
    IF HasCol(sh, "Title*")
    THEN { sh.rows[i]["Title*"] : i \in { j \in RowsOf(sh) :
             \E k \in RowsOf(sh) :
                 k # j /\ sh.rows[k]["Title*"] = sh.rows[j]["Title*"] } }
    ELSE {}

\* Error 102: dups, the normalised titles that value_counts counts twice
DupInside(sh) ==
    IF HasCol(sh, "Title*")
    THEN { TNorm(sh, i) : i \in { j \in RowsOf(sh) :
             \E k \in RowsOf(sh) : k # j /\ TNorm(sh, k) = TNorm(sh, j) } }
    ELSE {}

\* (a slip that would take a blank description for a short one)
PlaceholderIdxs_mut(sh) ==
    IF HasCol(sh, "Body (HTML)")
    THEN { i \in RowsOf(sh) :
             \/ Strip(sh.rows[i]["Body (HTML)"]) = <<>>
             \/ looks_like_placeholder_body(sh.rows[i]["Body (HTML)"]) }
    ELSE {}

\* Error 112: idxs_placeholder
PlaceholderIdxs(sh) ==
    IF HasCol(sh, "Body (HTML)")
    THEN { i \in RowsOf(sh) :
             /\ Strip(sh.rows[i]["Body (HTML)"]) # <<>>
             /\ looks_like_placeholder_body(sh.rows[i]["Body (HTML)"]) }
    ELSE {}

\* prev_titles_set
PrevTitlesSet(pv) ==
    IF pv.given /\ pv.exists /\ pv.readable /\ pv.has_title
    THEN { Lower(Strip(pv.titles[x])) : x \in 1..Len(pv.titles) }
    ELSE {}

\* Error 102 also: the rows of dup_against_export
DupAgainstExportIdxs(sh, pv) ==
    IF PrevTitlesSet(pv) # {} /\ HasCol(sh, "Title*")
    THEN { i \in RowsOf(sh) : /\ TNorm(sh, i) # <<>>
                              /\ TNorm(sh, i) \in PrevTitlesSet(pv) }
    ELSE {}

\* Error 109: bad_idxs
BadHandleIdxs(sh) ==
    IF HasCol(sh, "Handle (optional)")
    THEN { i \in RowsOf(sh) :
             /\ Stripped(sh, i, "Handle (optional)") # <<>>
             /\ ~is_valid_handle(Stripped(sh, i, "Handle (optional)")) }
    ELSE {}

\* the column "Image URL n"
ImageColNames ==
    <<"Image URL 1", "Image URL 2", "Image URL 3", "Image URL 4",
      "Image URL 5", "Image URL 6", "Image URL 7", "Image URL 8">>

ImageCol(n) == ImageColNames[n]

\* Error 101: the (row, n) of broken_lines; a value that is not a URL is
\* not probed
BrokenImages(sh, net) ==
    { e \in RowsOf(sh) \X (1..ImageCells) :
        /\ HasCol(sh, ImageCol(e[2]))
        /\ Strip(sh.rows[e[1]][ImageCol(e[2])]) # <<>>
        /\ \/ ~is_url(sh.rows[e[1]][ImageCol(e[2])])
           \/ net[e[1]][e[2]] # "OK" }

\* extract_base_6 of the dashboard: the cell is stripped, nothing else
dash_extract_base_6(s) ==
    IF StrictSkuMatch(Strip(s)) THEN ParseInt(SubSeq(Strip(s), 1, 6)) ELSE -1

\* load_prev_highest_base of the dashboard
dash_load_prev_highest_base(pv) ==
    IF ~pv.given \/ ~pv.exists THEN 0
    ELSE IF ~pv.readable THEN 0
    ELSE IF Len(pv.sku) = 0 THEN 0
    ELSE IF ~pv.has_column THEN 0
    ELSE LET col    == [x \in 1..Len(pv.sku) |-> Strip(pv.sku[x])]
             filled == { x \in 1..Len(col) :
                           col[x] # <<>> /\ Lower(col[x]) # NanText }
             top    == IF filled = {} THEN <<>>
                       ELSE col[CHOOSE x \in filled : \A y \in filled : x <= y]
             bases  == { dash_extract_base_6(col[x]) :
                           x \in { y \in 1..Len(col) : col[y] # <<>> } } \ {-1}
         IN  IF top # <<>> /\ dash_extract_base_6(top) # -1
             THEN dash_extract_base_6(top)
             ELSE IF bases = {} THEN 0
             ELSE CHOOSE b \in bases : \A c \in bases : c <= b

\* Error 103 / 104 for previous export file
PrevExportCodes(pv) ==
    IF pv.given /\ pv.exists
    THEN IF ~pv.readable THEN {"103"}
         ELSE IF Len(pv.sku) = 0 THEN {"104"}
         ELSE IF dash_load_prev_highest_base(pv) = 0 THEN {"103"}
         ELSE {}
    ELSE IF pv.given THEN {"104"}
    ELSE {}

\* the codes of a sheet that pandas has read
PreflightCodes(sh, pv, net) ==
    (IF EmptyImport(sh) THEN {"104"} ELSE {})
    \cup (IF MissingMandatory(sh) THEN {"105"} ELSE {})
    \cup (IF OptionMismatchIdxs(sh) # {} THEN {"110"} ELSE {})
    \cup (IF InvalidPriceIdxs(sh) # {} THEN {"108"} ELSE {})
    \cup SeoCodes(sh)
    \cup (IF MissingBodyIdxs(sh) # {} THEN {"107"} ELSE {})
    \cup (IF DupInside(sh) # {} THEN {"102"} ELSE {})
    \cup (IF PlaceholderIdxs(sh) # {} THEN {"112"} ELSE {})
    \cup (IF DupAgainstExportIdxs(sh, pv) # {} THEN {"102"} ELSE {})
    \cup (IF BadHandleIdxs(sh) # {} THEN {"109"} ELSE {})
    \cup (IF BrokenImages(sh, net) # {} THEN {"101"} ELSE {})
    \cup PrevExportCodes(pv)

\* what _worker_preflight puts on the queue: the token, the codes, and of
\* the detail the rows listed under Error 107 and under Error 112
worker_preflight(sh, pv, net) ==
    IF ~sh.readable
    THEN [token |-> "__VALIDATION_FAIL__", codes |-> {"104"},
          rows107 |-> {}, rows112 |-> {}]
    ELSE LET codes == PreflightCodes(sh, pv, net)
         IN  IF codes # {}
             THEN [token |-> "__VALIDATION_FAIL__", codes |-> codes,
                   rows107 |-> MissingBodyIdxs(sh),
                   rows112 |-> PlaceholderIdxs(sh)]
             ELSE [token |-> "__VALIDATION_OK__", codes |-> {},
                   rows107 |-> {}, rows112 |-> {}]

-----------------------------------------------------------------------------
(* _worker_preflight called on its own, on every sheet of the bounds *)

ImageColsOfChecks == { ImageCol(1), ImageCol(2) }

\* the columns of the template
FullCols ==
    MandatoryCols \cup SeoCols \cup ImageColsOfChecks
        \cup {"Option1 Name", "Option1 Values", "Body (HTML)",
              "Handle (optional)"}

\* a row that triggers nothing
GoodRow ==
    [c \in FullCols |->
        CASE c = "Title*" -> <<"O", "a", "k">>
          [] c = "Vendor*" -> <<"v">>
          [] c = "Variant Price*" -> <<"9">>
          [] c = "SEO Title" -> <<"O", "a", "k">>
          [] c = "SEO Description" -> <<"d">>
          [] c = "Body (HTML)" -> <<"A", " ", "s", "t", "u", "r", "d", "y", " ", "o", "a", "k", " ", "t", "a", "b", "l", "e", " ", "f", "o", "r", " ", "s", "i", "x", ".">>
          [] OTHER -> <<>>]

\* the texts of a Body (HTML) cell: blank, words of the blacklist that are
\* also short, markup around nothing, markup and an entity around a short
\* text, a long text with a word of the blacklist, dashes, punctuation
BodyTexts ==
    { <<>>, <<" ">>, <<"L", "o", "r", "e", "m", " ", "i", "p", "s", "u", "m", " ", "d", "o", "l", "o", "r">>, <<"<", "p", ">", " ", "<", "/", "p", ">">>, <<"<", "b", ">", "O", "a", "k", "<", "/", "b", ">", "&", "n", "b", "s", "p", ";", " ", "t", "a", "b", "l", "e">>, <<"T", "h", "i", "s", " ", "i", "t", "e", "m", " ", "i", "s", " ", "c", "o", "m", "i", "n", "g", " ", "s", "o", "o", "n", " ", "t", "o", " ", "s", "t", "o", "r", "e", "s">>, <<"-", " ", "-", " ", "-", " ", "-", " ", "-", " ", "-", " ", "-", " ", "-", " ", "-", " ", "en-dash", "em-dash", "bullet", "-">>, <<"!", "!", "!", "!", "!", "!", "!", "!", "!", "!", "!", "!", "!", "!", "!", "!", "!", "!", "!", "!", "!", "!">> }

\* rows for the rules on titles and descriptions
BodyRows ==
    { GoodRow,
      [GoodRow EXCEPT !["Title*"] = <<" ", "o", "a", "k", " ">>],
      [GoodRow EXCEPT !["Title*"] = <<>>],
      [GoodRow EXCEPT !["Title*"] = <<" ">>, !["Body (HTML)"] = <<>>] }
    \cup { [GoodRow EXCEPT !["Title*"] = <<"A", "s", "h">>, !["Body (HTML)"] = b] :
             b \in BodyTexts }

\* rows for the other rules: GoodRow with one or two cells changed
RuleRows ==
    { GoodRow,
      [GoodRow EXCEPT !["Title*"] = <<"E", "l", "m">>],
      [GoodRow EXCEPT !["Title*"] = <<"E", "l", "m">>, !["Vendor*"] = <<>>],
      [GoodRow EXCEPT !["Title*"] = <<"E", "l", "m">>,
                      !["Variant Price*"] = <<"0", ".", "0">>],
      [GoodRow EXCEPT !["Title*"] = <<"E", "l", "m">>, !["Option1 Name"] = <<"S", "i", "z", "e">>],
      [GoodRow EXCEPT !["Title*"] = <<"A", "s", "h">>, !["SEO Title"] = <<>>],
      [GoodRow EXCEPT !["Title*"] = <<"A", "s", "h">>,
                      !["SEO Title"] = Repeat("x", SeoTitleMax + 1),
                      !["SEO Description"] = <<>>],
      [GoodRow EXCEPT !["Title*"] = <<"A", "s", "h">>,
                      !["SEO Description"] = Repeat("x", SeoDescMax + 1)],
      [GoodRow EXCEPT !["Title*"] = <<"A", "s", "h">>,
                      !["Handle (optional)"] = <<"B", "a", "d", " ", "H", "a", "n", "d", "l", "e">>],
      [GoodRow EXCEPT !["Title*"] = <<"F", "i", "r">>, ![ImageCol(1)] = <<"h", "t", "t", "p", ":", "/", "/", "i">>],
      [GoodRow EXCEPT !["Title*"] = <<"F", "i", "r">>, ![ImageCol(2)] = <<"x", ".", "j", "p", "g">>],
      [GoodRow EXCEPT !["Title*"] = <<>>, !["Handle (optional)"] = <<"B", "a", "d", " ", "H", "a", "n", "d", "l", "e">>] }

\* rows for the rules on the previous export
PrevRows ==
    { GoodRow,
      [GoodRow EXCEPT !["Title*"] = <<"E", "l", "m">>],
      [GoodRow EXCEPT !["Title*"] = <<>>] }

\* the texts of a "Variant Price*" cell of a product of two sizes: one price,
\* a price per size, a price per size with blanks around, a token that is
\* no number, a price too many, a price of zero in the list, a list that
\* ends on the separator
PriceTexts ==
    { <<"9", ".", "9", "9">>,
      <<"9", ".", "9", "9", "|", "1", "0", ".", "9", "9">>,
      <<" ", "9", " ", "|", " ", "8", " ">>,
      <<"9", ".", "9", "9", "|", "x">>,
      <<"9", "|", "1", "0", "|", "1", "1">>,
      <<"0", "|", "5">>,
      <<"9", ".", "9", "9", "|">> }

\* rows for the price rule: a product of two sizes with each of the texts
PriceRows ==
    { [GoodRow EXCEPT !["Title*"] = <<"Y", "e", "w">>,
                      !["Option1 Name"] = <<"S", "i", "z", "e">>,
                      !["Option1 Values"] = <<"S", "|", "M">>,
                      !["Variant Price*"] = p] : p \in PriceTexts }

\* the row without the cells of the columns that the sheet has not
Restrict(row, cols) == [c \in cols |-> row[c]]

\* the lists of at most n rows of rs
RECURSIVE RowLists(_, _)
RowLists(rs, n) ==
    IF n = 0 THEN { <<>> }
    ELSE RowLists(rs, n - 1)
           \cup { Append(l, r) :
                    l \in { m \in RowLists(rs, n - 1) : Len(m) = n - 1 },
                    r \in rs }

\* the previous exports of the validation: none, a path to nothing, a file
\* pandas cannot read, a file without rows, without "Variant SKU" column,
\* with a base and another title, with a base and a title of the sheet, and
\* with a quoted base and no title
PrevOfChecks ==
    { NoPrev,
      [NoPrev EXCEPT !.given = TRUE],
      [NoPrev EXCEPT !.given = TRUE, !.exists = TRUE],
      PrevFile(TRUE, <<>>, TRUE, <<>>),
      PrevFile(FALSE, << <<>> >>, TRUE, << <<"B", "i", "r", "c", "h">> >>),
      PrevFile(TRUE, << <<"1", "1", "0", "3", "7", "4">> >>, TRUE, << <<"B", "i", "r", "c", "h">> >>),
      PrevFile(TRUE, << <<"1", "1", "0", "3", "7", "4">> >>, TRUE, << <<" ", "O", "A", "K">> >>),
      PrevFile(TRUE, << <<"'", "1", "1", "0", "3", "7", "5">> >>, TRUE, << <<>> >>) }

\* the sheets of the checks: the rows they are made of, with the columns
\* they have and the previous export given with them
SheetFamilies ==
    { [rows  |-> BodyRows,
       cases |-> { [cols |-> FullCols, prev |-> NoPrev],
                   [cols |-> FullCols \ {"Title*"}, prev |-> NoPrev] }],
      [rows  |-> RuleRows,
       cases |-> { [cols |-> FullCols, prev |-> NoPrev],
                   [cols |-> MandatoryCols, prev |-> NoPrev] }
                 \cup { [cols |-> FullCols \ {c}, prev |-> NoPrev] :
                          c \in {"Vendor*", "Body (HTML)", "SEO Description",
                                 "Option1 Values"} }],
      [rows  |-> PrevRows,
       cases |-> { [cols |-> FullCols, prev |-> pv] : pv \in PrevOfChecks }],
      [rows  |-> PriceRows,
       cases |-> { [cols |-> FullCols, prev |-> NoPrev] }] }

\* the answers of the network to the probes of a sheet: a cell that is no
\* URL is not probed
ProbeAnswers(sh) ==
    { net \in [RowsOf(sh) -> [1..2 -> {"OK", "HTTP", "none"}]] :
        \A i \in RowsOf(sh), n \in 1..2 :
            (net[i][n] = "none") <=>
                ~(HasCol(sh, ImageCol(n)) /\ is_url(sh.rows[i][ImageCol(n)])) }

UnreadableSheet == [readable |-> FALSE, cols |-> {}, rows |-> <<>>]

PreflightInit ==
    /\ \E fam \in SheetFamilies :
       \E l \in RowLists(fam.rows, MaxSheetRows), cs \in fam.cases :
         LET sh == [readable |-> TRUE, cols |-> cs.cols,
                    rows |-> [x \in 1..Len(l) |-> Restrict(l[x], cs.cols)]]
         IN  /\ prev = cs.prev
             /\ \E net \in ProbeAnswers(sh) : vin = [sheet |-> sh, net |-> net]
       \/ /\ prev = NoPrev
          /\ vin = [sheet |-> UnreadableSheet, net |-> <<>>]
    /\ seed_out = 0 /\ seed_pc = "done"
    /\ vout = [token |-> "none", codes |-> {}, rows107 |-> {}, rows112 |-> {}]
    /\ vpc = "call"
    /\ BInitIdle /\ KInitIdle /\ DInitIdle /\ CInitIdle

PreflightCall ==
    /\ vpc = "call"
    /\ vout' = worker_preflight(vin.sheet, prev, vin.net)
    /\ vpc' = "done"
    /\ UNCHANGED <<vin, bvars, kvars, dvars, pvars, cvars>>

PreflightNext == PreflightCall

SpecPreflight == PreflightInit /\ [][PreflightNext]_vars

-----------------------------------------------------------------------------
(* Properties of _worker_preflight *)

\* the sheet of the call, and the call made on a sheet pandas could read
VSheet == vin.sheet
Validated == vpc = "done" /\ VSheet.readable

\* a text trimmed and with its letters in lower case
Folded(s) == Lower(Strip(s))

\* the cell of column c of row i, blank when the sheet has no such column
VCell(i, c) == IF c \in VSheet.cols THEN VSheet.rows[i][c] ELSE <<>>

\* two rows of the sheet have the same title but for case and blanks around
SameTitleTwice ==
    /\ "Title*" \in VSheet.cols
    /\ \E i, j \in RowsOf(VSheet) :
          i # j /\ Folded(VCell(i, "Title*")) = Folded(VCell(j, "Title*"))

\* a non-blank title of the sheet is, but for case and blanks around, in the
\* "Title" column of the previous export
TitleInPrevExport ==
    /\ "Title*" \in VSheet.cols
    /\ prev.given /\ prev.exists /\ prev.readable /\ prev.has_title
    /\ \E i \in RowsOf(VSheet), x \in 1..Len(prev.titles) :
          /\ Folded(VCell(i, "Title*")) # <<>>
          /\ Folded(VCell(i, "Title*")) = Folded(prev.titles[x])

\* C14: code 102 is raised whenever two rows of the sheet have titles that
\* are equal after trimming and case-folding, and whenever a non-blank title
\* of the sheet equals, trimmed and case-folded, a cell of the "Title" column
\* of the previous export.
C14_DuplicateTitlesRaise102 ==
    Validated =>
        /\ SameTitleTwice => "102" \in vout.codes
        /\ TitleInPrevExport => "102" \in vout.codes

\* "Oak" and " oak " in one sheet, and 102 reported
C14_Witness ==
    /\ Validated /\ Len(VSheet.rows) = 2
    /\ VCell(1, "Title*") = <<"O", "a", "k">> /\ VCell(2, "Title*") = <<" ", "o", "a", "k", " ">>
    /\ "102" \in vout.codes

\* "Oak" alone in the sheet and " OAK" in the previous export, and 102
\* reported
C14_WitnessPrevExport ==
    /\ Validated /\ Len(VSheet.rows) = 1
    /\ TitleInPrevExport /\ ~SameTitleTwice
    /\ "102" \in vout.codes

\* punctuation marks, dashes and bullets
PunctChars == DashChars \cup {"!", "?", ".", ",", ";", ":", "*"}

\* the text of a Body (HTML) cell without markup and entities, whitespace
\* collapsed: it is too short, holds a placeholder word, or has no letter
PoorBody(s) ==
    LET t == CleanBody(s)
    IN  \/ Len(t) < MinBodyLen
        \/ \E tok \in BadTokens : Contains(t, tok)
        \/ \A x \in 1..Len(t) : t[x] \in PunctChars

\* C15: code 112 is raised for every sheet with a row whose Body (HTML) cell
\* is not blank and whose text, markup and entities stripped and whitespace
\* collapsed, has 0 to 19 characters, or holds a placeholder word, or is
\* punctuation, dashes and bullets only.
C15_PoorBodyRaises112 ==
    (Validated /\ "Body (HTML)" \in VSheet.cols) =>
        ((\E i \in RowsOf(VSheet) :
              /\ Strip(VCell(i, "Body (HTML)")) # <<>>
              /\ PoorBody(VCell(i, "Body (HTML)")))
            => "112" \in vout.codes)

\* C16: a row with a non-blank title and a blank Body (HTML) is listed under
\* 107 and not under 112; with the body "Lorem ipsum dolor" it is listed
\* under 112 and not under 107; and no row is listed under both.
C16_Either107Or112 ==
    (Validated /\ {"Title*", "Body (HTML)"} \subseteq VSheet.cols) =>
        /\ \A i \in RowsOf(VSheet) :
              Strip(VCell(i, "Title*")) # <<>> =>
                  /\ Strip(VCell(i, "Body (HTML)")) = <<>> =>
                        /\ i \in vout.rows107 /\ i \notin vout.rows112
                        /\ "107" \in vout.codes
                  /\ VCell(i, "Body (HTML)") = <<"L", "o", "r", "e", "m", " ", "i", "p", "s", "u", "m", " ", "d", "o", "l", "o", "r">> =>
                        /\ i \in vout.rows112 /\ i \notin vout.rows107
                        /\ "112" \in vout.codes
        /\ vout.rows107 \cap vout.rows112 = {}

\* a sheet with a row of each kind: blank body, and "Lorem ipsum dolor"
C16_Witness ==
    /\ Validated /\ Len(VSheet.rows) = 2
    /\ {"Title*", "Body (HTML)"} \subseteq VSheet.cols
    /\ Strip(VCell(1, "Title*")) # <<>> /\ VCell(1, "Body (HTML)") = <<" ">>
    /\ Strip(VCell(2, "Title*")) # <<>> /\ VCell(2, "Body (HTML)") = <<"L", "o", "r", "e", "m", " ", "i", "p", "s", "u", "m", " ", "d", "o", "l", "o", "r">>
    /\ vout.rows107 = {1} /\ vout.rows112 = {2}

AllCodes ==
    {"101", "102", "103", "104", "105", "106", "107", "108", "109", "110",
     "111", "112"}

\* the trigger of each code, on the sheet, the previous export and the
\* answers of the probes
Trigger(code) ==
    LET rws == RowsOf(VSheet)
        blank(i, c)  == Strip(VCell(i, c)) = <<>>
        filled(i, c) == ~blank(i, c)
    IN  CASE code = "101" ->
               \E i \in rws, n \in 1..ImageCells :
                   /\ ImageCol(n) \in VSheet.cols
                   /\ filled(i, ImageCol(n))
                   /\ \/ ~is_url(VCell(i, ImageCol(n)))
                      \/ vin.net[i][n] # "OK"
          [] code = "102" -> SameTitleTwice \/ TitleInPrevExport
          [] code = "103" ->
               /\ prev.given /\ prev.exists
               /\ \/ ~prev.readable
                  \/ Len(prev.sku) > 0 /\ dash_load_prev_highest_base(prev) = 0
          [] code = "104" ->
               \/ \A i \in rws : blank(i, "Title*")
               \/ prev.given /\ prev.exists /\ prev.readable /\ Len(prev.sku) = 0
               \/ prev.given /\ ~prev.exists
          [] code = "105" ->
               \E c \in MandatoryCols :
                   c \notin VSheet.cols \/ \E i \in rws : blank(i, c)
          [] code = "106" ->
               \E c \in SeoCols : c \in VSheet.cols /\ \E i \in rws : blank(i, c)
          [] code = "107" ->
               /\ "Body (HTML)" \in VSheet.cols
               /\ \E i \in rws : filled(i, "Title*") /\ blank(i, "Body (HTML)")
          [] code = "108" ->
               \E i \in rws :
                   /\ filled(i, "Variant Price*")
                   /\ ~is_valid_positive_price_token(VCell(i, "Variant Price*"))
          [] code = "109" ->
               \E i \in rws :
                   /\ filled(i, "Handle (optional)")
                   /\ ~is_valid_handle(VCell(i, "Handle (optional)"))
          [] code = "110" ->
               \E i \in rws :
                   filled(i, "Option1 Name") # filled(i, "Option1 Values")
          [] code = "111" ->
               \E i \in rws :
                   \/ Len(Strip(VCell(i, "SEO Title"))) > SeoTitleMax
                   \/ Len(Strip(VCell(i, "SEO Description"))) > SeoDescMax
          [] code = "112" ->
               \E i \in rws :
                   /\ filled(i, "Body (HTML)")
                   /\ looks_like_placeholder_body(VCell(i, "Body (HTML)"))

\* C17: on a sheet that can be read, the codes reported are exactly the
\* codes whose own trigger holds: no rule is skipped because another one
\* fired (104 included) or because an earlier row failed, and the
\* validation fails exactly when there is such a code.
C17_CodesAreUnionOfTriggers ==
    Validated =>
        /\ vout.codes = { code \in AllCodes : Trigger(code) }
        /\ (vout.token = "__VALIDATION_FAIL__") <=> (vout.codes # {})

\* a sheet of two rows without any title, the second with a handle that is
\* not one: 104 together with 102, 105 and 109
C17_Witness ==
    /\ Validated /\ Len(VSheet.rows) = 2
    /\ \A i \in RowsOf(VSheet) : Strip(VCell(i, "Title*")) = <<>>
    /\ ~is_valid_handle(VCell(2, "Handle (optional)"))
    /\ {"102", "104", "105", "109"} \subseteq vout.codes

\* the previous export is one both programs can open: a path is given, the
\* file is there and pandas reads it
PrevOpened == prev.given /\ prev.exists /\ prev.readable

\* C21: for a previous export that is supplied, exists and can be read, code
\* 103 is raised exactly when the file has rows and load_prev_highest_base
\* of the builder returns 0 for it; and when it is not raised for a file
\* with rows, the validator has computed the seed of the builder.
C21_Code103IffBuilderSeedZero ==
    (Validated /\ PrevOpened) =>
        /\ "103" \in vout.codes
              <=> (Len(prev.sku) > 0 /\ load_prev_highest_base(prev) = 0)
        /\ ("103" \notin vout.codes /\ Len(prev.sku) > 0) =>
              dash_load_prev_highest_base(prev) = load_prev_highest_base(prev)

\* the validator and the builder on a previous export whose only cell is a
\* plain base: no 103, and the same seed
C21_PlainBaseAgreed ==
    /\ Validated /\ PrevOpened /\ Len(prev.sku) = 1
    /\ "103" \notin vout.codes
    /\ dash_load_prev_highest_base(prev) = 110374
    /\ load_prev_highest_base(prev) = 110374

-----------------------------------------------------------------------------
(* check_image_url called on its own *)

\* the values probed: nothing, a file name, a URL with an image extension
\* and a URL without one
ProbeUrls == { <<>>, <<"x", ".", "j", "p", "g">>, <<"h", "t", "t", "p", ":", "/", "/", "h", "/", "a", ".", "p", "n", "g">>, <<"H", "T", "T", "P", "S", ":", "/", "/", "h", "/", "p", "a", "g", "e">> }

\* the statuses a server answers with
Statuses == {200, 204, 404, 405, 500}

\* the Content-Type headers of an answer: none, image types in either case,
\* a page, and a page with the word image in a parameter
ContentTypes == { <<>>, <<"i", "m", "a", "g", "e", "/", "p", "n", "g">>, <<"I", "m", "a", "g", "e", "/", "J", "P", "E", "G">>, <<"t", "e", "x", "t", "/", "h", "t", "m", "l">>, <<"t", "e", "x", "t", "/", "h", "t", "m", "l", ";", " ", "x", "=", "i", "m", "a", "g", "e">> }

ServerAnswers ==
    { Response(s, c) : s \in Statuses, c \in ContentTypes }
        \cup { TransportFailure }

ProbeInit ==
    /\ probe_in \in [url : ProbeUrls, installed : BOOLEAN,
                      head : ServerAnswers, get : ServerAnswers]
    /\ probe_out = [ok |-> FALSE, note |-> "none", status |-> 0, sent |-> <<>>]
    /\ probe_pc = "call"
    /\ BInitIdle /\ KInitIdle /\ DInitIdle /\ PInitIdle /\ WInitIdle

ProbeCall ==
    /\ probe_pc = "call"
    /\ probe_out' = check_image_url(probe_in.url, probe_in.installed,
                                    probe_in.head, probe_in.get)
    /\ probe_pc' = "done"
    /\ UNCHANGED <<probe_in, bvars, kvars, dvars, pvars, wvars>>

ProbeNext == ProbeCall

SpecProbe == ProbeInit /\ [][ProbeNext]_vars

\* the Content-Type is of an image type: image/..., in any case
IsImageType(ctype) == HasPrefix(Lower(ctype), <<"i", "m", "a", "g", "e", "/">>)

\* the HEAD request was answered 405
Head405 == probe_in.head.kind = "resp" /\ probe_in.head.status = 405

\* the answer the verdict is taken from: of the GET after a 405, else of the
\* HEAD
FinalAnswer == IF Head405 THEN probe_in.get ELSE probe_in.head

\* what check_image_url is to return for a value that is a URL
ProbeOfUrlAsStated ==
    /\ probe_out.sent = IF Head405 THEN <<"HEAD", "GET">> ELSE <<"HEAD">>
    /\ (probe_in.head.kind = "fail" \/ FinalAnswer.kind = "fail") =>
          ~probe_out.ok /\ probe_out.note = "Error"
    /\ (FinalAnswer.kind = "resp" /\ FinalAnswer.status \notin 200..299) =>
          /\ ~probe_out.ok /\ probe_out.note = "HTTP"
          /\ probe_out.status = FinalAnswer.status
    /\ (FinalAnswer.kind = "resp" /\ ~IsImageType(FinalAnswer.ctype)) =>
          ~probe_out.ok
    /\ probe_out.ok =>
          /\ FinalAnswer.kind = "resp" /\ FinalAnswer.status \in 200..299
          /\ IsImageType(FinalAnswer.ctype)

\* C22: check_image_url returns (false, "Not a URL") without a request for a
\* value that is no http(s) URL; otherwise it sends one HEAD and, only after
\* a 405, one GET; a final status outside 2xx gives not-ok with the status
\* in the note, a missing or non-image Content-Type gives not-ok, a
\* transport failure gives not-ok with the error in the note, and ok is
\* returned only for a successful final response of an image type.
C22_ProbeOrder ==
    probe_pc = "done" =>
        IF probe_in.url = <<>> \/ ~is_url(probe_in.url)
        THEN /\ ~probe_out.ok /\ probe_out.note = "Not a URL"
             /\ probe_out.sent = <<>>
        ELSE ProbeOfUrlAsStated

\* the same with the requests package installed and the word image only in
\* Content-Types of an image type
ProbeOrderWithRequests ==
    (probe_pc = "done" /\ probe_in.installed
       /\ \A a \in {probe_in.head, probe_in.get} :
              HasImageWord(a.ctype) => IsImageType(a.ctype)) =>
        IF probe_in.url = <<>> \/ ~is_url(probe_in.url)
        THEN /\ ~probe_out.ok /\ probe_out.note = "Not a URL"
             /\ probe_out.sent = <<>>
        ELSE ProbeOfUrlAsStated

\* without the requests package a URL ending in .png is found ok and
\* nothing was sent
ProbeWithoutRequests ==
    /\ probe_pc = "done" /\ ~probe_in.installed
    /\ probe_out.ok /\ probe_out.sent = <<>>

\* a HEAD answered 405 and a GET answered 200 with an image: ok after two
\* requests
ProbeRetried ==
    /\ probe_pc = "done" /\ probe_in.installed
    /\ probe_out.ok /\ probe_out.sent = <<"HEAD", "GET">>

-----------------------------------------------------------------------------
(* Two executions of build_shopify_rows over the same table, the same      *)
(* previous base and the same respect-existing flag.  Each execution reads *)
(* AMS_START_BASE from its own environment and gets its own answers from   *)
(* the network; nothing else is read by the function.                      *)

\* the values of AMS_START_BASE
EnvValues == { sd[2] : sd \in SeedInputs }

\* the rows of the table of the two executions
PairRows ==
    SkuRows \cup { PlainRow,
                   WithImages(WithGrid(PlainRow, 2, 0, 0), 1, TRUE),
                   WithGrid(PlainRow, 7, 43, 0) }

\* the locals of the second execution before its loop
Run2Start(prev_base, env_base) ==
    [started |-> TRUE,
     highest_before |-> SeedAfterEnv(prev_base, env_base),
     next_base |-> FirstBase(SeedAfterEnv(prev_base, env_base)),
     used_handles |-> {}, df_sku |-> <<>>, rows |-> <<>>, issues |-> <<>>]

PairInit ==
    /\ \E sd \in SeedInputs, env2 \in EnvValues, respect \in BOOLEAN :
          /\ BuildStart(sd[1], sd[2], respect)
          /\ run2 = Run2Start(sd[1], env2)
    /\ BInitIdle /\ DInitIdle /\ PInitIdle /\ WInitIdle /\ CInitIdle

\* both executions run the loop body on the next row of the table
PairStep ==
    /\ Len(df) < MaxProducts
    /\ \E r \in PairRows :
         \E net \in NetChoices(ImagePairs(r)), net2 \in NetChoices(ImagePairs(r)) :
           /\ ProcessRow(r, net)
           /\ \E b \in {LoopBody(r, Len(df) + 2, respect_existing,
                                  run2.next_base, run2.used_handles, net2)} :
                 run2' = [run2 EXCEPT
                            !.next_base = b.next_base,
                            !.used_handles = @ \cup {b.handle},
                            !.df_sku = Append(@, b.sku_cell),
                            !.rows = @ \o b.rows,
                            !.issues = @ \o b.issues]

PairNext == PairStep

SpecTwoRuns == PairInit /\ [][PairNext]_vars

\* the Variant SKU column of a list of output rows
SkuColumn(rws) == [y \in 1..Len(rws) |-> rws[y].Variant_SKU]

\* the two executions have given every variant of every product the same SKU
SameSkus ==
    /\ run2.df_sku = df_sku
    /\ SkuColumn(run2.rows) = SkuColumn(rows)

\* C12: two executions over the same table, the same previous base and the
\* same respect-existing flag give every variant of every product the same
\* SKU, whatever the network answers to the image probes of each.
C12_SameInputsSameSkus == run2.started => SameSkus

\* the same for two executions that also read the same seed after the
\* AMS_START_BASE override
SameSkusUnderSameOverride ==
    (run2.started /\ run2.highest_before = highest_before) => SameSkus

\* two executions of two products with different answers of the network
TwoRunsDone ==
    /\ run2.started /\ Len(df) = 2
    /\ run2.highest_before = highest_before
    /\ \E n \in 1..Len(image_results) : image_results[n].ok

-----------------------------------------------------------------------------
(* load_prev_highest_base called on every previous export of the bounds *)

\* the texts of a "Variant SKU" cell: empty, blank, a base, a quoted SKU with
\* suffix, a padded base, a SKU with a 3-digit suffix, a word, a 5-digit
\* number, a quote alone
SkuTexts ==
    { <<>>, <<" ">>,
      <<"1", "1", "0", "3", "7", "4">>,
      <<"'", "1", "1", "0", "3", "7", "5", "-", "0", "1">>,
      <<" ", "1", "1", "0", "3", "8", "0", " ">>,
      <<"1", "1", "0", "3", "9", "0", "-", "1", "0", "0">>,
      <<"a", "b", "c">>,
      <<"9", "9", "9", "9", "9">>,
      <<"'">> }

\* the columns of at most n cells
RECURSIVE SkuColumns(_)
SkuColumns(n) ==
    IF n = 0 THEN { <<>> }
    ELSE SkuColumns(n - 1)
           \cup { Append(c, s) : c \in { d \in SkuColumns(n - 1) : Len(d) = n - 1 },
                                 s \in SkuTexts }

PrevExports ==
    { NoPrev, [NoPrev EXCEPT !.given = TRUE] }
    \cup { PrevFile(FALSE, Repeat(<<>>, n), TRUE, Repeat(<<"a">>, n)) :
             n \in 0..1 }
    \cup { PrevFile(TRUE, c, TRUE, Repeat(<<"a">>, Len(c))) :
             c \in SkuColumns(MaxPrevRows) }

SeedInit ==
    /\ prev \in PrevExports
    /\ seed_out = 0
    /\ seed_pc = "call"
    /\ BInitIdle /\ KInitIdle /\ DInitIdle /\ WInitIdle /\ CInitIdle

LoadPrev ==
    /\ seed_pc = "call"
    /\ seed_out' = load_prev_highest_base(prev)
    /\ seed_pc' = "done"
    /\ UNCHANGED <<prev, bvars, kvars, dvars, wvars, cvars>>

SeedNext == LoadPrev

SpecSeed == SeedInit /\ [][SeedNext]_vars

\* the text of a cell without the blanks around it and without a leading
\* apostrophe
Unquoted(s) ==
    LET a == Strip(s)
    IN  Strip(IF a # <<>> /\ a[1] = "'" THEN Tail(a) ELSE a)

\* ^\d{6}(-\d{2})?$
IsSkuText(s) ==
    /\ Len(s) \in {6, 9}
    /\ \A x \in 1..Len(s) : IF x = 7 THEN s[x] = "-" ELSE IsDigit(s[x])

\* the cells of the column with something in them
NonBlankCells(col) == { x \in 1..Len(col) : Unquoted(col[x]) # <<>> }

\* the cells of the column that hold a SKU, and the base of one
ParsableCells(col) == { x \in 1..Len(col) : IsSkuText(Unquoted(col[x])) }
BaseOfCell(s) == ParseInt(SubSeq(Unquoted(s), 1, 6))

\* C13: load_prev_highest_base returns the base of the first non-blank cell
\* of the "Variant SKU" column when that cell, without a leading apostrophe,
\* matches ^\d{6}(-\d{2})?$; else the greatest base of the parsable cells
\* of the column; and 0 when there is no file, no such column, or no
\* parsable cell.
C13_SeedOfPreviousExport ==
    seed_pc = "done" =>
        LET nb == NonBlankCells(prev.sku)
            pc == ParsableCells(prev.sku)
            first == CHOOSE x \in nb : \A y \in nb : x <= y
        IN  IF ~prev.exists \/ ~prev.has_column \/ pc = {}
            THEN seed_out = 0
            ELSE IF first \in pc
            THEN seed_out = BaseOfCell(prev.sku[first])
            ELSE /\ \E x \in pc : seed_out = BaseOfCell(prev.sku[x])
                 /\ \A x \in pc : BaseOfCell(prev.sku[x]) <= seed_out

\* the first filled cell holds a base that is not the greatest of the column
C13_Witness ==
    /\ seed_pc = "done"
    /\ Len(prev.sku) = 3
    /\ prev.sku[1] = <<" ">>
    /\ prev.sku[2] = <<"'", "1", "1", "0", "3", "7", "5", "-", "0", "1">>
    /\ prev.sku[3] = <<" ", "1", "1", "0", "3", "8", "0", " ">>
    /\ seed_out = 110375

\* the first filled cell does not parse and the greatest base is returned
C13_FallbackReached ==
    /\ seed_pc = "done"
    /\ Len(prev.sku) = 3
    /\ prev.sku[1] = <<"a", "b", "c">>
    /\ seed_out = 110380

-----------------------------------------------------------------------------
(* The SKUs of one build *)

\* no two variant rows of the output carry the same non-blank SKU
SkusDistinct ==
    \A y \in 1..Len(rows) : \A z \in 1..Len(rows) :
        (/\ y # z
         /\ IsVariantRow(rows[y]) /\ IsVariantRow(rows[z])
         /\ rows[y].Variant_SKU # <<>>) =>
            rows[y].Variant_SKU # rows[z].Variant_SKU

\* C24: in the output of one build, in either SKU mode and for any input,
\* also one whose Variant SKU cell has fewer tokens than the product has
\* variants, no two variant rows carry the same non-blank Variant SKU.
C24_NoSkuTwice == SkusDistinct

\* the same for a build that generates every SKU
GeneratedSkusDistinct == ~respect_existing => SkusDistinct

\* a product of three variants with the one-token cell A, kept as it is
OneTokenKept ==
    /\ respect_existing
    /\ \E x \in Products :
          /\ df[x].Variant_SKU = << <<"A">> >>
          /\ Len(VariantRows(x)) = 3
          /\ \A j \in 1..3 : VariantRows(x)[j].row.Variant_SKU = <<"A">>

-----------------------------------------------------------------------------
(* A build followed by a build whose previous export is the                *)
(* shopify_import.csv of the first                                         *)

\* the rows of the sheet of the first build
FirstRows ==
    SkuRows \cup { PlainRow, WithGrid(PlainRow, 2, 0, 0),
                   WithImages(PlainRow, MaxImages, FALSE) }

\* the rows of the sheet of the second build: no Variant SKU cell
SecondRows == { PlainRow, WithGrid(PlainRow, 2, 0, 0) }

\* the "Title" column of a list of output rows
TitleColumn(rws) == [y \in 1..Len(rws) |-> rws[y].Title]

\* shopify_import.csv as main wrote it, read as a previous export
ExportOf(rws) == PrevFile(TRUE, SkuColumn(rws), TRUE, TitleColumn(rws))

NextBuildInit ==
    /\ KInit
    /\ BInitIdle /\ DInitIdle /\ PInitIdle /\ WInitIdle /\ CInitIdle

\* the loop of the first build
FirstBuildStep ==
    /\ ~run2.started
    /\ Len(df) < MaxProducts
    /\ \E r \in FirstRows : \E net \in NetChoices(ImagePairs(r)) :
           ProcessRow(r, net)
    /\ UNCHANGED run2

\* main of the second build up to the loop: --prev is the export of the
\* first build, AMS_START_BASE is not set
SecondBuildStart ==
    /\ ~run2.started
    /\ Len(df) >= 1
    /\ \E p \in {ExportOf(rows)} :
          /\ prev' = p
          /\ seed_out' = load_prev_highest_base(p)
          /\ run2' = Run2Start(load_prev_highest_base(p), <<>>)
    /\ seed_pc' = "done"
    /\ UNCHANGED <<df, df_sku, respect_existing, highest_before, next_base,
                   used_handles, handles, rows, row_src, issues,
                   image_results>>
    /\ UNCHANGED <<bvars, dvars, wvars, cvars>>

\* the loop of the second build
SecondBuildStep ==
    /\ run2.started
    /\ Len(run2.df_sku) < MaxProducts
    /\ \E r \in SecondRows : \E net \in NetChoices(ImagePairs(r)) :
         \E b \in {LoopBody(r, Len(run2.df_sku) + 2, respect_existing,
                            run2.next_base, run2.used_handles, net)} :
             run2' = [run2 EXCEPT
                        !.next_base = b.next_base,
                        !.used_handles = @ \cup {b.handle},
                        !.df_sku = Append(@, b.sku_cell),
                        !.rows = @ \o b.rows,
                        !.issues = @ \o b.issues]
    /\ UNCHANGED <<df, df_sku, respect_existing, highest_before, next_base,
                   used_handles, handles, rows, row_src, issues,
                   image_results>>
    /\ UNCHANGED <<bvars, dvars, pvars, wvars, cvars>>

NextBuildNext == FirstBuildStep \/ SecondBuildStart \/ SecondBuildStep

SpecNextBuild == NextBuildInit /\ [][NextBuildNext]_vars

\* the bases the second build has allocated
AllocatedBases ==
    { ParseInt(SubSeq(run2.rows[y].Variant_SKU, 1, 6)) :
        y \in { z \in 1..Len(run2.rows) : run2.rows[z].Variant_SKU # <<>> } }

\* the bases in the parsable cells of the previous export
PrevBases == { BaseOfCell(prev.sku[x]) : x \in ParsableCells(prev.sku) }

\* C23: every base a build allocates is strictly greater than every base in
\* a parsable cell of the "Variant SKU" column of the previous export, in
\* whatever order its rows are, so no allocated base is one of them; also
\* when the previous export is the shopify_import.csv of an earlier build
\* of two or more products.
C23_FreshBasesAbovePrevExport ==
    run2.started => \A b \in AllocatedBases : \A c \in PrevBases : c < b

\* every allocated base is above the seed load_prev_highest_base returned
FreshBasesAboveSeed ==
    run2.started => \A b \in AllocatedBases : seed_out < b

\* the second build has allocated a base the first one had given out
BaseAllocatedTwice ==
    /\ run2.started /\ Len(df) >= 2
    /\ AllocatedBases \cap PrevBases # {}

-----------------------------------------------------------------------------
(* A build followed by a build, in respect-existing mode, of the           *)
(* input-with-SKUs table the first has written                             *)

\* the rows of the sheet of the first build
RerunRows ==
    SkuRows \cup { PlainRow, WithGrid(PlainRow, 2, 2, 0),
                   WithGrid(PlainRow, 7, 43, 0) }

\* the previous highest base the second build is started with
RerunSeeds == {0, 110373}

\* row x of df_with_skus: the row of the sheet with the "Variant SKU" cell
\* build_shopify_rows has written into it
InputWithSkus(x) == [df[x] EXCEPT !.Variant_SKU = df_sku[x]]

RerunInit ==
    /\ KInit
    /\ BInitIdle /\ DInitIdle /\ PInitIdle /\ WInitIdle /\ CInitIdle

\* the loop of the first build
RerunFirstStep ==
    /\ ~run2.started
    /\ Len(df) < MaxProducts
    /\ \E r \in RerunRows : \E net \in NetChoices(ImagePairs(r)) :
           ProcessRow(r, net)
    /\ UNCHANGED run2

\* build_shopify_rows is called on input_with_skus, up to its loop
RerunStart ==
    /\ ~run2.started
    /\ Len(df) >= 1
    /\ \E sd \in RerunSeeds : run2' = Run2Start(sd, <<>>)
    /\ UNCHANGED <<df, df_sku, respect_existing, highest_before, next_base,
                   used_handles, handles, rows, row_src, issues,
                   image_results>>
    /\ UNCHANGED <<bvars, dvars, pvars, wvars, cvars>>

\* the loop of the second build, with respect_existing set
RerunStep ==
    /\ run2.started
    /\ Len(run2.df_sku) < Len(df)
    /\ \E r \in {InputWithSkus(Len(run2.df_sku) + 1)} :
         \E net \in NetChoices(ImagePairs(r)) :
           \E b \in {LoopBody(r, Len(run2.df_sku) + 2, TRUE,
                              run2.next_base, run2.used_handles, net)} :
             run2' = [run2 EXCEPT
                        !.next_base = b.next_base,
                        !.used_handles = @ \cup {b.handle},
                        !.df_sku = Append(@, b.sku_cell),
                        !.rows = @ \o b.rows,
                        !.issues = @ \o b.issues]
    /\ UNCHANGED <<df, df_sku, respect_existing, highest_before, next_base,
                   used_handles, handles, rows, row_src, issues,
                   image_results>>
    /\ UNCHANGED <<bvars, dvars, pvars, wvars, cvars>>

RerunNext == RerunFirstStep \/ RerunStart \/ RerunStep

SpecRerun == RerunInit /\ [][RerunNext]_vars

\* the rows of the first build that come from the first n rows of the sheet
RowsOfFirst(n) ==
    SelectSeq([y \in 1..Len(rows) |-> [row |-> rows[y], src |-> row_src[y]]],
              LAMBDA e : e.src <= n + 1)

\* C28: building again, in respect-existing mode, the input-with-SKUs table
\* of a build gives every variant the SKU it had, files no "Variant SKU"
\* warning, and does not move next_base for a product whose SKU list is
\* full.
C28_RerunKeepsSkus ==
    run2.started =>
        LET n     == Len(run2.df_sku)
            first == RowsOfFirst(n)
        IN  /\ run2.df_sku = SubSeq(df_sku, 1, n)
            /\ Len(run2.rows) = Len(first)
            /\ \A y \in 1..Len(first) :
                  run2.rows[y].Variant_SKU = first[y].row.Variant_SKU
            /\ \A y \in 1..Len(run2.issues) :
                  run2.issues[y].field # "Variant SKU"
            /\ run2.next_base = FirstBase(run2.highest_before)

\* the first build has repaired a Variant SKU cell of two parts for three
\* variants and filed the warning; the second build has gone through that
\* product and another
C28_Witness ==
    /\ run2.started /\ Len(run2.df_sku) = 2
    /\ \E x \in 1..2 :
          /\ df[x].Variant_SKU = <<<<"A">>, <<>>, <<"C">>>>
          /\ Len(df_sku[x]) = 3
    /\ respect_existing
    /\ \E y \in 1..Len(issues) : issues[y].field = "Variant SKU"
    /\ Len(run2.rows) >= 4

\* the first build has generated the SKUs and the second has kept them
C28_WitnessGenerated ==
    /\ run2.started /\ Len(run2.df_sku) = 2
    /\ ~respect_existing
    /\ \A x \in 1..2 : Accepted(x)
    /\ next_base = FirstBase(highest_before) + 2
    /\ run2.highest_before # highest_before

-----------------------------------------------------------------------------
(* amsons_dashboard.py: DashboardFrame, Validate and Run *)

\* the rows of the sheets the user selects: one that passes every rule, one
\* with an image cell that is no URL (101), one without vendor (105), and
\* one without title
DashRows ==
    { GoodRow,
      [GoodRow EXCEPT ![ImageCol(2)] = <<"x", ".", "j", "p", "g">>],
      [GoodRow EXCEPT !["Vendor*"] = <<>>],
      [GoodRow EXCEPT !["Title*"] = <<" ">>, ![ImageCol(2)] = <<"x", ".", "j", "p", "g">>] }

\* the inputs the user can select: none, a file or sheet that cannot be
\* read, a sheet without rows, and the sheets of one row of DashRows
Sheets ==
    { [path |-> FALSE, readable |-> FALSE, cols |-> {}, rows |-> <<>>],
      [path |-> TRUE, readable |-> FALSE, cols |-> {}, rows |-> <<>>],
      [path |-> TRUE, readable |-> TRUE, cols |-> FullCols, rows |-> <<>>] }
    \cup { [path |-> TRUE, readable |-> TRUE, cols |-> FullCols, rows |-> <<r>>] :
              r \in DashRows }

\* the user picks an input file or sheet
ChooseInput(s) ==
    /\ s # sheet
    /\ sheet' = s
    /\ UNCHANGED <<last_validation, proceed_despite_errors, phase, btn_validate,
                   btn_run, q, poll, thread, last_exit_code, launched,
                   bvars, kvars,
                   pvars, wvars, cvars, builder>>

\* the user ticks or unticks "Allow to proceed without images"
ToggleProceed ==
    /\ proceed_despite_errors' = ~proceed_despite_errors
    /\ UNCHANGED <<last_validation, phase, btn_validate, btn_run, q, poll,
                   thread, last_exit_code, sheet, launched, bvars, kvars,
                   pvars, wvars, cvars, builder>>

\* _validate_only: the click on Validate, with the builder script found
ValidateOnly ==
    /\ btn_validate = "normal"
    /\ sheet.path
    /\ btn_validate' = "disabled"
    /\ btn_run' = "disabled"
    /\ phase' = "preflight"
    /\ thread' = [kind |-> "preflight", input |-> sheet]
    /\ poll' = "validation"
    /\ UNCHANGED <<last_validation, proceed_despite_errors, q, last_exit_code,
                   sheet, launched, bvars, kvars,
                   pvars, wvars, cvars, builder>>

\* (a slip that would post the failure as a line of the log)
ValidationFail_mut(codes) == [token |-> "ERROR", codes |-> codes]

\* the messages _worker_preflight ends with
ValidationFail(codes) == [token |-> "__VALIDATION_FAIL__", codes |-> codes]
ValidationOk == [token |-> "__VALIDATION_OK__", codes |-> {}]

\* _worker_preflight: the thread reads the sheet it was given, runs the
\* rules and posts one message; failed is an exception raised while the
\* rules run
WorkerPreflight(failed) ==
    /\ thread.kind = "preflight"
    /\ \E net \in ProbeAnswers(thread.input) :
         LET out == worker_preflight(thread.input, prev, net)
         IN  q' = Append(q,
                    IF failed THEN ValidationFail({"104"})
                    ELSE IF out.token = "__VALIDATION_FAIL__"
                         THEN ValidationFail(out.codes)
                    ELSE ValidationOk)
    /\ thread' = [kind |-> "none"]
    /\ UNCHANGED <<last_validation, proceed_despite_errors, phase, btn_validate,
                   btn_run, poll, last_exit_code, sheet, launched, bvars, kvars,
                   pvars, wvars, cvars, builder>>

\* the tokens _poll_validation_only stops at
ValidationTokens == {"__VALIDATION_OK__", "__VALIDATION_FAIL__"}

\* position of the first message of q whose token is in tokens, 0 when none is
FirstMsg(tokens) ==
    IF \E n \in 1..Len(q) : q[n].token \in tokens
    THEN CHOOSE n \in 1..Len(q) :
             /\ q[n].token \in tokens
             /\ \A m \in 1..(n-1) : q[m].token \notin tokens
    ELSE 0

\* _poll_validation_only: one run of the callback; it logs what it dequeues
\* until a validation token, and schedules itself again when q runs empty
PollValidationOnly ==
    /\ poll = "validation"
    /\ q # <<>>
    /\ LET n == FirstMsg(ValidationTokens)
       IN  IF n = 0
           THEN /\ q' = <<>>
                /\ UNCHANGED <<last_validation, phase, btn_validate, btn_run, poll>>
           ELSE /\ q' = SubSeq(q, n + 1, Len(q))
                /\ phase' = "idle"
                /\ btn_validate' = "normal"
                /\ btn_run' = "normal"
                /\ poll' = "none"
                /\ last_validation' =
                       IF q[n].token = "__VALIDATION_OK__"
                       THEN [ran |-> TRUE, has_errors |-> FALSE, codes |-> {}]
                       ELSE [ran |-> TRUE, has_errors |-> TRUE,
                             codes |-> q[n].codes]
    /\ UNCHANGED <<proceed_despite_errors, thread, last_exit_code, sheet,
                   launched, bvars, kvars,
                   pvars, wvars, cvars, builder>>

\* (a slip that would let the checkbox bypass any code)
RunBlocked_mut(lv, proceed) ==
    \/ ~lv.ran
    \/ lv.has_errors /\ ~(proceed /\ lv.codes # {})

\* the two early returns of _run_only
RunBlocked(lv, proceed) ==
    \/ ~lv.ran
    \/ lv.has_errors /\ ~(proceed /\ lv.codes # {} /\ lv.codes \subseteq {"101"})

\* _run_only: the click on Run, with a label given and the script found;
\* it starts the builder thread unless it returns early
RunOnly ==
    /\ btn_run = "normal"
    /\ Len(launched) < MaxRuns
    /\ ~RunBlocked(last_validation, proceed_despite_errors)
    /\ sheet.path
    /\ btn_validate' = "disabled"
    /\ btn_run' = "disabled"
    /\ phase' = "script"
    /\ thread' = [kind |-> "script", pc |-> "popen", lines |-> 0]
    /\ poll' = "queue"
    /\ launched' = Append(launched, [validation |-> last_validation,
                                     proceed |-> proceed_despite_errors])
    /\ UNCHANGED <<last_validation, proceed_despite_errors, q, last_exit_code,
                   sheet, bvars, kvars,
                   pvars, wvars, cvars, builder>>

Line(text) == [token |-> text, codes |-> {}]

\* (a slip that would leave the exit status unset when Popen raised)
LaunchFailed_mut == NoStatus

\* what _worker records as exit status when Popen raised
LaunchFailed == -1

\* the builder process that is not there
NoBuilder == [pc |-> "none", inp |-> "none", rc |-> NoStatus, steps |-> <<>>]

\* _worker: subprocess.Popen, which starts the builder or raises
WorkerPopen(ok) ==
    /\ thread.kind = "script" /\ thread.pc = "popen"
    /\ IF ok
       THEN /\ thread' = [thread EXCEPT !.pc = "stdout"]
            /\ builder' = [builder EXCEPT !.pc = "main"]
            /\ UNCHANGED <<q, last_exit_code>>
       ELSE /\ thread' = [thread EXCEPT !.pc = "finally"]
            /\ last_exit_code' = LaunchFailed
            /\ q' = Append(q, Line("ERROR"))
            /\ UNCHANGED builder
    /\ UNCHANGED <<last_validation, proceed_despite_errors, phase, btn_validate,
                   btn_run, poll, sheet, launched, bvars, kvars,
                   pvars, wvars, cvars>>

\* what the builder finds at the path of --input
InputStates == {"missing", "unreadable", "readable"}

\* (a slip that would look for the input file after the build)
main_mut(inp) ==
    LET s1 == <<"outdir.mkdir", "load_prev_highest_base", "read_excel",
                "build_shopify_rows">>
    IN  IF inp = "missing" THEN [rc |-> 2, steps |-> s1]
        ELSE IF inp = "unreadable" THEN [rc |-> 3, steps |-> s1]
        ELSE [rc |-> 0,
              steps |-> s1 \o <<"out_csv.open", "out_inv.open", "rep_csv.open">>]

\* final-script.py, main: the steps it takes on an input, in order, and the
\* status it exits with
main(inp) ==
    LET s0 == <<"outdir.mkdir">>
        s1 == s0 \o <<"load_prev_highest_base", "read_excel">>
    IN  IF inp = "missing" THEN [rc |-> 2, steps |-> s0]
        ELSE IF inp = "unreadable" THEN [rc |-> 3, steps |-> s1]
        ELSE [rc |-> 0,
              steps |-> s1 \o <<"build_shopify_rows", "out_csv.open",
                                "out_inv.open", "rep_csv.open">>]

\* the builder process runs main on what it finds at the input path
BuilderMain(inp) ==
    /\ builder.pc = "main"
    /\ builder' = [pc |-> "exited", inp |-> inp,
                   rc |-> main(inp).rc, steps |-> main(inp).steps]
    /\ UNCHANGED <<last_validation, proceed_despite_errors, phase, btn_validate,
                   btn_run, q, poll, thread, last_exit_code, sheet, launched,
                   bvars, kvars, pvars, wvars, cvars>>

\* _worker: "for line in proc.stdout: self.q.put(line)"
WorkerLine ==
    /\ thread.kind = "script" /\ thread.pc = "stdout"
    /\ thread.lines < MaxLines
    /\ q' = Append(q, Line("line"))
    /\ thread' = [thread EXCEPT !.lines = @ + 1]
    /\ UNCHANGED <<last_validation, proceed_despite_errors, phase, btn_validate,
                   btn_run, poll, last_exit_code, sheet, launched, bvars, kvars,
                   pvars, wvars, cvars, builder>>

\* the exit statuses of the builder: 0, and 2 and 3 of its sys.exit calls
ExitCodes == {0, 2, 3}

\* _worker: "rc = proc.wait(); self._last_exit_code = rc"
WorkerWait(rc) ==
    /\ thread.kind = "script" /\ thread.pc = "stdout"
    /\ builder.pc = "exited" /\ rc = builder.rc
    /\ thread' = [thread EXCEPT !.pc = "finally"]
    /\ last_exit_code' = rc
    /\ UNCHANGED <<last_validation, proceed_despite_errors, phase, btn_validate,
                   btn_run, q, poll, sheet, launched, bvars, kvars,
                   pvars, wvars, cvars, builder>>

\* _worker: "finally: self.q.put('__DONE__')"
WorkerDone ==
    /\ thread.kind = "script" /\ thread.pc = "finally"
    /\ q' = Append(q, Line("__DONE__"))
    /\ thread' = [kind |-> "none"]
    /\ UNCHANGED <<last_validation, proceed_despite_errors, phase, btn_validate,
                   btn_run, poll, last_exit_code, sheet, launched, bvars, kvars,
                   pvars, wvars, cvars, builder>>

\* _poll_queue: one run of the callback; on "__DONE__" it runs _finish_run,
\* which reads _last_exit_code, puts the phase back to idle and enables the
\* buttons; the process that has exited is of no account from then on
PollQueue ==
    /\ poll = "queue"
    /\ q # <<>>
    /\ LET n == FirstMsg({"__DONE__"})
       IN  IF n = 0
           THEN /\ q' = <<>>
                /\ UNCHANGED <<phase, btn_validate, btn_run, poll, builder>>
           ELSE /\ q' = SubSeq(q, n + 1, Len(q))
                /\ phase' = "idle"
                /\ btn_validate' = "normal"
                /\ btn_run' = "normal"
                /\ poll' = "none"
                /\ builder' = NoBuilder
    /\ UNCHANGED <<last_validation, proceed_despite_errors, thread,
                   last_exit_code, sheet, launched, bvars, kvars,
                   pvars, wvars, cvars>>

DashNext ==
    \/ \E s \in Sheets : ChooseInput(s)
    \/ ToggleProceed
    \/ ValidateOnly
    \/ \E failed \in BOOLEAN : WorkerPreflight(failed)
    \/ PollValidationOnly
    \/ RunOnly
    \/ \E ok \in BOOLEAN : WorkerPopen(ok)
    \/ WorkerLine
    \/ \E inp \in InputStates : BuilderMain(inp)
    \/ \E rc \in ExitCodes : WorkerWait(rc)
    \/ WorkerDone
    \/ PollQueue

DashInit ==
    DInitIdle /\ BInitIdle /\ KInitIdle /\ PInitIdle /\ WInitIdle /\ CInitIdle

SpecDash == DashInit /\ [][DashNext]_vars

\* the step that ends the validation thread: WorkerPreflight, the only
\* action that takes thread from preflight to none
PreflightEnds == thread.kind = "preflight" /\ thread' = [kind |-> "none"]

\* the steps of the worker threads and of the builder process, which run to
\* their end once started, and the callbacks Tk runs 50 ms after they were
\* scheduled with after()
DashFairness ==
    /\ WF_thread(PreflightEnds)
    /\ WF_vars(\E ok \in BOOLEAN : WorkerPopen(ok))
    /\ WF_vars(\E inp \in InputStates : BuilderMain(inp))
    /\ WF_vars(\E rc \in ExitCodes : WorkerWait(rc))
    /\ WF_vars(WorkerDone)
    /\ WF_vars(PollValidationOnly)
    /\ WF_vars(PollQueue)

\* the inputs selected in the runs checked for progress: a workbook that
\* cannot be read and one that passes every rule
FairSheets ==
    { s \in Sheets : s.path /\ (~s.readable \/ s.rows = <<GoodRow>>) }

DashFairNext ==
    \/ \E s \in FairSheets : ChooseInput(s)
    \/ ToggleProceed
    \/ ValidateOnly
    \/ \E failed \in BOOLEAN : WorkerPreflight(failed)
    \/ PollValidationOnly
    \/ RunOnly
    \/ \E ok \in BOOLEAN : WorkerPopen(ok)
    \/ WorkerLine
    \/ \E inp \in InputStates : BuilderMain(inp)
    \/ \E rc \in ExitCodes : WorkerWait(rc)
    \/ WorkerDone
    \/ PollQueue

SpecDashFair == DashInit /\ [][DashFairNext]_vars /\ DashFairness

-----------------------------------------------------------------------------
(* Properties of the dashboard *)

\* C4: a builder run starts only when a validation has completed and either
\* reported no code, or the checkbox is ticked and the reported codes are a
\* non-empty subset of {101}; after a validation that reported any other
\* code no run starts, whatever the checkbox.
C4_RunOnlyAfterCleanOrOverridden101 ==
    [][ /\ launched' # launched =>
            /\ last_validation.ran
            /\ \/ last_validation.codes = {}
               \/ /\ proceed_despite_errors
                  /\ last_validation.codes # {}
                  /\ last_validation.codes \subseteq {"101"}
        /\ (\E c \in last_validation.codes : c # "101") =>
            launched' = launched ]_vars

\* a run started with the checkbox ticked after a validation that reported
\* 101 alone, and a later validation that reported another code
C4_Witness ==
    /\ launched # <<>>
    /\ Last(launched).validation.codes = {"101"}
    /\ Last(launched).proceed
    /\ proceed_despite_errors
    /\ "105" \in last_validation.codes
    /\ btn_run = "normal"

\* the sheet cannot be read, or none of its rows has a title
Unusable(sh) ==
    \/ ~sh.readable
    \/ \A i \in 1..Len(sh.rows) :
           "Title*" \in sh.cols => Strip(sh.rows[i]["Title*"]) = <<>>

\* the steps of the builder that allocate SKUs or open an output file
BuildOrOpen ==
    {"build_shopify_rows", "out_csv.open", "out_inv.open", "rep_csv.open"}

\* C18: the validation of a sheet that cannot be read or has no titled row
\* reports 104; the result the dashboard keeps is the one reported; while it
\* holds 104 no click on Run starts a builder, whatever the checkbox, and no
\* builder process takes a step; and a builder that finds its input missing
\* or unreadable exits with a status other than 0 without having called
\* build_shopify_rows or opened an output file.
C18_StructuralErrorsAbort ==
    [][ /\ (thread.kind = "preflight" /\ thread'.kind = "none"
               /\ Unusable(thread.input)) =>
            /\ Last(q').token = "__VALIDATION_FAIL__"
            /\ "104" \in Last(q').codes
        /\ last_validation' # last_validation =>
            /\ FirstMsg(ValidationTokens) > 0
            /\ last_validation'.codes = q[FirstMsg(ValidationTokens)].codes
            /\ last_validation'.has_errors =
                   (q[FirstMsg(ValidationTokens)].token = "__VALIDATION_FAIL__")
        /\ "104" \in last_validation.codes =>
            /\ launched' = launched
            /\ builder' = builder /\ builder.pc = "none"
        /\ (builder.pc = "main" /\ builder'.pc = "exited"
               /\ builder'.inp \in {"missing", "unreadable"}) =>
            /\ builder'.rc \in {2, 3}
            /\ \A x \in 1..Len(builder'.steps) :
                   builder'.steps[x] \notin BuildOrOpen ]_vars

\* the sheet without titled row is selected, its validation has reported
\* 104 and another code, the checkbox is ticked and the Run button is
\* enabled: the click on Run returns early
C18_Witness ==
    /\ sheet.readable /\ Len(sheet.rows) = 1 /\ Unusable(sheet)
    /\ last_validation.ran /\ {"101", "104"} \subseteq last_validation.codes
    /\ proceed_despite_errors
    /\ btn_run = "normal"
    /\ launched = <<>>

\* a builder that found no input file has exited with status 2 after
\* outdir.mkdir alone
C18_WitnessBuilder ==
    /\ builder.pc = "exited" /\ builder.inp = "missing"
    /\ builder.rc = 2 /\ builder.steps = <<"outdir.mkdir">>

\* what a validation of the selection sh can leave in last_validation
ValidationsOf(sh) ==
    { [ran |-> TRUE, has_errors |-> out.token = "__VALIDATION_FAIL__",
       codes |-> out.codes] :
        out \in { worker_preflight(sh, prev, net) : net \in ProbeAnswers(sh) } }
    \cup { [ran |-> TRUE, has_errors |-> TRUE, codes |-> {"104"}] }

\* C25: the builder is launched only for the selection that was validated:
\* once the input file, the sheet name or the previous export has been
\* changed after a validation, the click on Run launches nothing until a
\* validation of the selection now made has completed; the result kept is
\* never applied to another selection.
C25_RunOnlyForValidatedSelection ==
    [][ launched' # launched => last_validation \in ValidationsOf(sheet) ]_vars

\* a validation has passed, another input has been selected since and the
\* Run button is enabled
StaleValidationKept ==
    /\ last_validation.ran /\ ~last_validation.has_errors
    /\ sheet.path /\ sheet.readable
    /\ last_validation \notin ValidationsOf(sheet)
    /\ btn_run = "normal"
    /\ launched = <<>>

\* the messages a worker ends with
TerminalTokens == ValidationTokens \cup {"__DONE__"}

\* the terminal messages waiting in a queue
Terminals(qq) == { n \in 1..Len(qq) : qq[n].token \in TerminalTokens }

\* a worker has been started and its terminal message is not handled yet
InFlight == thread.kind # "none" \/ Terminals(q) # {}

\* both buttons are in the given state
Buttons(st) == btn_validate = st /\ btn_run = st

\* a step that starts a worker thread
WorkerStarted ==
    /\ thread' # thread
    /\ \/ thread'.kind = "preflight"
       \/ thread'.kind = "script" /\ thread'.pc = "popen"

\* what the steps of the dashboard do to the worker in flight
OneWorkerSteps ==
    [][ /\ WorkerStarted => ~InFlight /\ Buttons("normal")
        /\ (thread.kind # "none" /\ thread'.kind = "none") =>
              /\ Len(q') = Len(q) + 1
              /\ Last(q').token \in TerminalTokens
              /\ Last(q').token = "__DONE__" <=> thread.kind = "script"
        /\ Cardinality(Terminals(q')) > Cardinality(Terminals(q)) =>
              thread.kind # "none" /\ thread'.kind = "none"
        /\ Cardinality(Terminals(q')) < Cardinality(Terminals(q)) =>
              /\ Terminals(q') = {}
              /\ phase' = "idle" /\ btn_validate' = "normal"
              /\ btn_run' = "normal" ]_vars

\* C26: at most one worker, validation thread or builder thread, is in
\* flight at any time: from the start of a worker until its terminal
\* message is handled both buttons are disabled; every worker started
\* posts exactly one terminal message (__VALIDATION_OK__,
\* __VALIDATION_FAIL__ or __DONE__) on every path, failures included, and
\* once it is handled the phase is idle and both buttons are enabled.
C26_OneWorkerOneTerminalMessage ==
    /\ [](InFlight => Buttons("disabled") /\ phase # "idle")
    /\ [](Cardinality(Terminals(q)) <= 1)
    /\ OneWorkerSteps
    /\ (InFlight ~> (~InFlight /\ phase = "idle" /\ Buttons("normal")))

\* the same without the progress part, for every input of SpecDash
OneWorkerInFlight ==
    /\ [](InFlight => Buttons("disabled") /\ phase # "idle")
    /\ [](Cardinality(Terminals(q)) <= 1)
    /\ OneWorkerSteps

\* the builder thread of the last run, whose Popen failed, has posted
\* __DONE__ behind the error line and the message is not handled yet
C26_Witness ==
    /\ thread.kind = "none"
    /\ Len(q) = 2 /\ q[1].token = "ERROR" /\ q[2].token = "__DONE__"
    /\ last_exit_code = -1
    /\ phase = "script" /\ Buttons("disabled")
    /\ Len(launched) = MaxRuns

\* the validation thread has raised and posted __VALIDATION_FAIL__
C26_WitnessValidation ==
    /\ thread.kind = "none" /\ phase = "preflight"
    /\ Len(q) = 1 /\ q[1] = ValidationFail({"104"})
    /\ sheet.readable /\ Len(sheet.rows) = 1 /\ ~Unusable(sheet)

\* the step of _poll_queue that takes __DONE__ from the queue and runs
\* _finish_run
FinishRun == phase = "script" /\ phase' = "idle"

C27_WitnessLaunchFailed ==
    /\ Len(launched) = 2
    /\ thread.kind = "none" /\ phase = "script"
    /\ builder.pc = "none" /\ last_exit_code = -1
    /\ q # <<>> /\ Last(q).token = "__DONE__"


-----------------------------------------------------------------------------
(* The "Variant Price*" cell in the validation and in the build *)

\* s.split("|")
RECURSIVE SplitBar(_)
SplitBar(s) ==
    IF \E n \in 1..Len(s) : s[n] = "|"
    THEN LET n == CHOOSE m \in 1..Len(s) :
                      s[m] = "|" /\ \A k \in 1..(m - 1) : s[k] # "|"
         IN  <<SubSeq(s, 1, n - 1)>> \o SplitBar(SubSeq(s, n + 1, Len(s)))
    ELSE <<s>>

\* the cell as split_pipe takes it apart: no part of a blank cell, else the
\* parts between the separators, trimmed
CellParts(s) ==
    IF Strip(s) = <<>> THEN <<>>
    ELSE [x \in 1..Len(SplitBar(Strip(s))) |-> Strip(SplitBar(Strip(s))[x])]

\* the row of the sheet as build_shopify_rows reads it
BuilderRow(row) ==
    [PlainRow EXCEPT !.Title = row["Title*"],
                     !.Vendor = row["Vendor*"],
                     !.Handle_opt = row["Handle (optional)"],
                     !.Option1_Name = row["Option1 Name"],
                     !.Option1_Values = CellParts(row["Option1 Values"]),
                     !.Variant_Price = CellParts(row["Variant Price*"])]

\* what the loop of build_shopify_rows does on row i of the validated sheet
BuiltOf(i) ==
    LoopBody(BuilderRow(VSheet.rows[i]), i + 1, FALSE, DefaultBase, {}, <<>>)

\* the builder takes the price cell of row i without an issue on the field
\* and writes a positive decimal number as the price of every variant
PriceConsumed(i) ==
    LET b == BuiltOf(i)
    IN  /\ b.rows # <<>>
        /\ \A x \in 1..Len(b.issues) : b.issues[x].field # "Variant Price*"
        /\ \A y \in 1..Len(b.rows) :
              is_valid_positive_price_token(b.rows[y].Variant_Price)

\* C29: a sheet whose every price cell the builder consumes without a price
\* issue and emits as positive decimal prices, one per variant, is accepted
\* by the validation: code 108 is not raised.
C29_ConsumedPricesPass108 ==
    (Validated /\ VSheet.cols = FullCols
        /\ \A i \in RowsOf(VSheet) : PriceConsumed(i))
    => "108" \notin vout.codes

\* a sheet whose price cells are each one positive number is consumed by the
\* builder and raises no 108
SinglePricesPass108 ==
    (Validated /\ VSheet.cols = FullCols
        /\ \A i \in RowsOf(VSheet) :
              /\ PriceConsumed(i)
              /\ Len(CellParts(VSheet.rows[i]["Variant Price*"])) = 1)
    => "108" \notin vout.codes

\* "9.99|10.99" for a product of two sizes: two variant rows with the prices
\* 9.99 and 10.99, no issue, and 108 from the validation
PriceListRejected ==
    /\ Validated /\ VSheet.cols = FullCols /\ Len(VSheet.rows) = 1
    /\ VSheet.rows[1]["Variant Price*"] = <<"9", ".", "9", "9", "|", "1", "0", ".", "9", "9">>
    /\ PriceConsumed(1)
    /\ Len(BuiltOf(1).rows) = 2
    /\ BuiltOf(1).rows[1].Variant_Price = <<"9", ".", "9", "9">>
    /\ BuiltOf(1).rows[2].Variant_Price = <<"1", "0", ".", "9", "9">>
    /\ "108" \in vout.codes

-----------------------------------------------------------------------------
(* Code 102 and the titles that are blank *)

\* every title of the sheet that is not blank is, trimmed and case-folded,
\* on one row only and in no cell of the "Title" column of the previous
\* export
NonBlankTitlesUnique ==
    /\ \A i, j \in RowsOf(VSheet) :
          (i # j /\ Folded(VCell(i, "Title*")) # <<>>)
              => Folded(VCell(i, "Title*")) # Folded(VCell(j, "Title*"))
    /\ ~TitleInPrevExport

\* C30: code 102 is not raised when every title that is not blank is unique
\* in the sheet after trimming and case-folding and is in no cell of the
\* Title column of the previous export; rows whose title is blank do not
\* count as duplicates of one another.
C30_No102WithoutDuplicateTitle ==
    (Validated /\ NonBlankTitlesUnique) => "102" \notin vout.codes

\* the same when at most one row of the sheet has a blank title
No102WithOneBlankTitle ==
    (Validated /\ NonBlankTitlesUnique
        /\ \A i, j \in RowsOf(VSheet) :
              (Folded(VCell(i, "Title*")) = <<>>
                  /\ Folded(VCell(j, "Title*")) = <<>>) => i = j)
    => "102" \notin vout.codes

\* two rows without title and no previous export, and 102 reported
BlankTitlesCounted ==
    /\ Validated /\ "Title*" \in VSheet.cols /\ Len(VSheet.rows) = 2
    /\ \A i \in RowsOf(VSheet) : Strip(VCell(i, "Title*")) = <<>>
    /\ ~prev.given
    /\ "102" \in vout.codes

=============================================================================
